---- MODULE Spec2Model ----
(***************************************************************************)
(* docuquery: the RAG query pipeline (app/services/rag.py, cache.py,       *)
(* qdrant.py, llm.py, embeddings.py) and the document-processing pipeline  *)
(* (app/services/processor.py, chunker.py, app/api/v1/documents.py).       *)
(*                                                                         *)
(* The specifications share the state:                                     *)
(*   SpecIndex  the vector-index API of qdrant.py, one call per step       *)
(*              (SpecIndexWrites, SpecStore: parts of it);                 *)
(*   SpecRag    query_documents runs interleaved at their await points     *)
(*              (SpecRagOutage: with Redis failing; SpecRagHang: with an   *)
(*              LLM call that may not return, under fairness; SpecTenants: *)
(*              two tenants);                                              *)
(*   SpecCache  the cache API of cache.py, one call per step;              *)
(*   SpecChunk  one chunk_text call, one loop iteration per step           *)
(*              (SpecChunkFair: under fairness);                           *)
(*   SpecProc   upload / process_document / reprocess_document /           *)
(*              process_all_queued runs interleaved at their I/O points    *)
(*              (SpecBatch, SpecDelete, SpecExtract: other mixes of them;  *)
(*              SpecRecover: interrupted uploads and the recovery job,     *)
(*              under fairness; SpecDeleteQuery: deletes beside queries);  *)
(*   SpecRate   the rate limiter of multi_tenant.py under concurrent       *)
(*              requests.                                                  *)
(*                                                                         *)
(* Python strings that are only compared are TLA+ strings; strings that    *)
(* are sliced or measured (document text, chunks) are sequences of         *)
(* one-character strings; an exception message is the record of its        *)
(* label and its length.                                                   *)
(***************************************************************************)
EXTENDS Integers, Sequences, FiniteSets, TLC

VARIABLES
    collections,   \* Qdrant: collection name -> [exists, points]
    nextPointId,   \* the next fresh point id (uuid.uuid4())
    call,          \* the API call observed (SpecIndex, SpecChunk): arguments, position, result
    cache,         \* Redis: set of [key, value, expires]
    now,           \* the clock, in seconds
    queries,       \* query_documents runs: run id -> frame
    generated,     \* history: answers returned by successful generate_answer calls
    degraded,      \* history: cache keys of the queries answered in degraded form
    lastWrite,     \* history: cache key -> the response of its latest cache_answer
    documents,     \* the documents table: document id -> row
    files,         \* file storage: document id -> stored text
    procs,         \* processor runs: process id -> frame
    started        \* number of operations (queries, processor runs) started so far

vars == <<collections, nextPointId, call, cache, now, queries, generated,
          degraded, lastWrite, documents, files, procs, started>>

indexVars == <<collections, nextPointId>>
ragVars == <<cache, queries, generated, degraded, lastWrite>>
procVars == <<documents, files, procs, started>>

(***************************************************************************)
(* Bounds of the model.                                                    *)
(***************************************************************************)
\* points ever created in SpecIndex
MaxPoints == 3
\* length of the chunk list handed to store_embeddings in SpecIndex
MaxChunks == 2

Tenants == {"tA", "tB"}
DocIds == {"d1", "d2"}
Questions == {"q1", "q2"}

\* chunk texts used where the text itself is an input
ChunkTexts == {<<"a">>, <<"b", "b">>}

Min(a, b) == IF a <= b THEN a ELSE b
Abs(a) == IF a < 0 THEN -a ELSE a
Range(s) == {s[i] : i \in 1..Len(s)}
SeqsUpTo(S, n) == UNION {[1..k -> S] : k \in 0..n}

(***************************************************************************)
(* Embedder (embeddings.py).  The model is a deterministic map from a text *)
(* to a vector; vectors are abstracted to one of three directions.         *)
(***************************************************************************)
Vectors == 0..2

\* model.encode(text) for a chunk text
Embed(text) == Len(text) % 3

\* model.encode(question) for a question
QuestionVector(q) == IF q = "q1" THEN 1 ELSE 2

\* generate_embedding(question)
GenerateEmbedding(q) == QuestionVector(q)

\* generate_embeddings(texts): one vector per text, in order
GenerateEmbeddings(texts) ==
    IF texts = <<>> THEN <<>> ELSE [i \in 1..Len(texts) |-> Embed(texts[i])]

\* similarity of two vectors under the collection's metric: larger is closer
Score(qv, v) == 2 - Abs(qv - v)

(***************************************************************************)
(* Vector index (qdrant.py).                                               *)
(***************************************************************************)
\* get_collection_name
GetCollectionName(tenant_id) == "tenant_" \o tenant_id

CollectionNames == {GetCollectionName(t) : t \in Tenants}

NoCollection == [exists |-> FALSE, points |-> {}]

\* client.get_collections(): the names of the existing collections
ExistingNames(colls) == {n \in DOMAIN colls : colls[n].exists}

\* ensure_collection(tenant_id), as one call: create when absent
EnsureCollection(colls, tenant_id) ==
    LET name == GetCollectionName(tenant_id) IN
    IF name \notin ExistingNames(colls)
    THEN [colls EXCEPT ![name] = [exists |-> TRUE, points |-> {}]]
    ELSE colls

\* the points store_embeddings builds: zip(chunks, embeddings), enumerate
BuildPoints(document_id, chunks, embeddings, firstId) ==
    {[id |-> firstId + i - 1,
      vector |-> embeddings[i],
      document_id |-> document_id,
      chunk_index |-> i - 1,
      text |-> chunks[i]] : i \in 1..Min(Len(chunks), Len(embeddings))}

\* client.upsert(collection_name, points)
Upsert(colls, name, points) ==
    [colls EXCEPT ![name].points = @ \cup points]

\* the query filter of search_similar: must = [document_id == id for id in ids],
\* every condition of a must list has to hold; no filter for None or []
FilterMatches(p, document_ids) ==
    \A i \in 1..Len(document_ids) : p.document_id = document_ids[i]

\* one formatted hit of search_similar
Hit(p, qv) ==
    [score |-> Score(qv, p.vector),
     document_id |-> p.document_id,
     chunk_index |-> p.chunk_index,
     text |-> p.text]

\* client.query_points(limit = top_k): the matching points by descending score;
\* the order among equal scores is the engine's choice, so every order is possible
QueryPoints(points, qv, top_k, document_ids) ==
    LET M == {p \in points : FilterMatches(p, document_ids)}
        n == Min(top_k, Cardinality(M))
    IN {s \in [1..n -> M] :
          /\ \A i, j \in 1..n : i # j => s[i] # s[j]
          /\ \A i \in 1..n : \A j \in 1..n :
                i < j => Score(qv, s[i].vector) >= Score(qv, s[j].vector)
          /\ \A p \in M \ {s[i] : i \in 1..n} :
                \A i \in 1..n : Score(qv, p.vector) <= Score(qv, s[i].vector)}

SearchSimilarWithoutExistenceCheck(colls, tenant_id, qv, top_k, document_ids) ==
    LET all == UNION {colls[n].points : n \in CollectionNames} IN
    {[i \in 1..Len(s) |-> Hit(s[i], qv)] :
        s \in QueryPoints(all, qv, top_k, document_ids)}

\* search_similar(tenant_id, query_embedding, top_k, document_ids): the set of
\* lists it may return
SearchSimilar(colls, tenant_id, qv, top_k, document_ids) ==
    LET name == GetCollectionName(tenant_id) IN
    IF name \notin ExistingNames(colls)
    THEN {<<>>}
    ELSE {[i \in 1..Len(s) |-> Hit(s[i], qv)] :
            s \in QueryPoints(colls[name].points, qv, top_k, document_ids)}

DeleteDocumentVectorsOfAll(colls, tenant_id, document_id) ==
    [n \in CollectionNames |->
        [colls[n] EXCEPT !.points = {p \in @ : p.document_id # document_id}]]

\* delete_document_vectors(tenant_id, document_id)
DeleteDocumentVectors(colls, tenant_id, document_id) ==
    LET name == GetCollectionName(tenant_id) IN
    IF name \notin ExistingNames(colls)
    THEN colls
    ELSE [colls EXCEPT ![name].points =
            {p \in @ : p.document_id # document_id}]

\* delete_collection(tenant_id): errors of a missing collection are swallowed
DeleteCollection(colls, tenant_id) ==
    [colls EXCEPT ![GetCollectionName(tenant_id)] = NoCollection]

(***************************************************************************)
(* SpecIndex: the vector-index API, one whole call per step.               *)
(***************************************************************************)
\* top_k values tried; 5 is the default of search_similar
DefaultTopK == 5
TopKs == {1, DefaultTopK}

\* document_ids arguments tried; <<>> stands for None and for []
DocIdLists == {<<>>, <<"d1">>, <<"d2">>, <<"d1", "d2">>}

NoCall == [op |-> "none", tenant |-> "tA", document_ids |-> <<>>,
           top_k |-> 0, qv |-> 0, result |-> <<>>,
           chunks |-> <<>>, embeddings |-> <<>>]

\* store_embeddings(tenant_id, document_id, chunks, embeddings)
IdxStoreEmbeddings(t, d, chunks, embeddings) ==
    LET points == BuildPoints(d, chunks, embeddings, nextPointId) IN
    /\ nextPointId + Cardinality(points) - 1 <= MaxPoints
    /\ collections' = Upsert(EnsureCollection(collections, t),
                             GetCollectionName(t), points)
    /\ nextPointId' = nextPointId + Cardinality(points)
    /\ call' = [NoCall EXCEPT !.op = "store_embeddings", !.tenant = t]
    /\ UNCHANGED <<ragVars, procVars, now>>

IdxSearchSimilar(t, q, k, D) ==
    /\ \E r \in SearchSimilar(collections, t, GenerateEmbedding(q), k, D) :
          call' = [NoCall EXCEPT !.op = "search_similar", !.tenant = t,
                                 !.document_ids = D, !.top_k = k,
                                 !.qv = GenerateEmbedding(q), !.result = r]
    /\ UNCHANGED <<indexVars, ragVars, procVars, now>>

IdxDeleteDocumentVectors(t, d) ==
    /\ collections' = DeleteDocumentVectors(collections, t, d)
    /\ call' = [NoCall EXCEPT !.op = "delete_document_vectors", !.tenant = t,
                              !.document_ids = <<d>>]
    /\ UNCHANGED <<nextPointId, ragVars, procVars, now>>

IdxEnsureCollection(t) ==
    /\ collections' = EnsureCollection(collections, t)
    /\ call' = [NoCall EXCEPT !.op = "ensure_collection", !.tenant = t]
    /\ UNCHANGED <<nextPointId, ragVars, procVars, now>>

IdxDeleteCollection(t) ==
    /\ collections' = DeleteCollection(collections, t)
    /\ call' = [NoCall EXCEPT !.op = "delete_collection", !.tenant = t]
    /\ UNCHANGED <<nextPointId, ragVars, procVars, now>>

InitIndex ==
    /\ collections = [n \in CollectionNames |-> NoCollection]
    /\ nextPointId = 1
    /\ call = NoCall
    /\ cache = {}
    /\ now = 0
    /\ queries = <<>>
    /\ generated = {}
    /\ degraded = {}
    /\ lastWrite = {}
    /\ documents = <<>>
    /\ files = <<>>
    /\ procs = <<>>
    /\ started = 0

NextIndex ==
    \/ \E t \in Tenants, d \in DocIds, chunks \in SeqsUpTo(ChunkTexts, MaxChunks) :
          IdxStoreEmbeddings(t, d, chunks, GenerateEmbeddings(chunks))
    \/ \E t \in Tenants, q \in Questions, k \in TopKs, D \in DocIdLists :
          IdxSearchSimilar(t, q, k, D)
    \/ \E t \in Tenants, d \in DocIds : IdxDeleteDocumentVectors(t, d)
    \/ \E t \in Tenants : IdxEnsureCollection(t)
    \/ \E t \in Tenants : IdxDeleteCollection(t)

SpecIndex == InitIndex /\ [][NextIndex]_vars

\* store_embeddings called with any two lists, of equal length or not
StoreEmbeddingsCall(t, d, chunks, embeddings) ==
    LET points == BuildPoints(d, chunks, embeddings, nextPointId) IN
    /\ nextPointId + Cardinality(points) - 1 <= MaxPoints
    /\ collections' = Upsert(EnsureCollection(collections, t),
                             GetCollectionName(t), points)
    /\ nextPointId' = nextPointId + Cardinality(points)
    /\ call' = [NoCall EXCEPT !.op = "store_embeddings", !.tenant = t,
                              !.document_ids = <<d>>, !.chunks = chunks,
                              !.embeddings = embeddings]
    /\ UNCHANGED <<ragVars, procVars, now>>

\* the vectors and the document the lists of these calls are made of
StoreVectors == {0, 1}
StoreDocIds == {"d1"}

NextStore ==
    \/ \E t \in Tenants, d \in StoreDocIds,
          chunks \in SeqsUpTo(ChunkTexts, MaxChunks),
          embeddings \in SeqsUpTo(StoreVectors, MaxChunks) :
          StoreEmbeddingsCall(t, d, chunks, embeddings)
    \/ \E t \in Tenants : IdxDeleteCollection(t)

SpecStore == InitIndex /\ [][NextStore]_vars

\* the calls that write the index, without the searches
NextIndexWrites ==
    \/ \E t \in Tenants, d \in DocIds, chunks \in SeqsUpTo(ChunkTexts, MaxChunks) :
          IdxStoreEmbeddings(t, d, chunks, GenerateEmbeddings(chunks))
    \/ \E t \in Tenants, d \in DocIds : IdxDeleteDocumentVectors(t, d)
    \/ \E t \in Tenants : IdxEnsureCollection(t)
    \/ \E t \in Tenants : IdxDeleteCollection(t)

SpecIndexWrites == InitIndex /\ [][NextIndexWrites]_vars

(***************************************************************************)
(* Query cache (cache.py).                                                 *)
(***************************************************************************)
\* ttl default of cache_answer, in seconds
DefaultTTL == 3600

\* hashlib.sha256(query_text.encode()).hexdigest(), in four blocks of 16
\* hexadecimal characters
Sha256Hex(query_text) ==
    IF query_text = "q1"
    THEN <<"c75de8c1b7c3ae52", "52091267a736a9bf",
           "57001d80e82668b3", "cb3cd09e2f6a43cb">>
    ELSE IF query_text = "x:y"
    THEN <<"1274e286686b54fe", "765ec40735665b4b",
           "f789cee2a5b22124", "c5e0491a88e15271">>
    ELSE IF query_text = "y"
    THEN <<"a1fce4363854ff88", "8cff4b8e7875d600",
           "c2682390412a8cf7", "9b37d0b11148b0fa">>
    ELSE <<"bee98bf120e89063", "82754c6be52860ac",
           "5dbc65a1ca4dbee7", "576267d8fd3367e1">>

GetCacheKeySharedByTenants(tenant_id, query_text) ==
    <<"query", "", Sha256Hex(query_text)[1]>>

GetCacheKeyUnhashed(tenant_id, query_text) == <<"query", tenant_id, query_text>>

\* get_cache_key: f"query:{tenant_id}:{query_hash[:16]}", as the three fields
\* the f-string joins
GetCacheKey(tenant_id, query_text) ==
    <<"query", tenant_id, Sha256Hex(query_text)[1]>>

\* the string the f-string of get_cache_key renders from its fields
KeyString(key) == key[1] \o ":" \o key[2] \o ":" \o key[3]

\* json.dumps / json.loads of a response dict: the text of a JSON object in
\* which the Python bool is written as the literal true / false
JsonDumps(payload) ==
    [json |-> [payload EXCEPT !.cached = IF @ THEN "true" ELSE "false"]]
JsonLoads(value) == [value.json EXCEPT !.cached = (@ = "true")]

\* client.get(key): the unexpired entries under the key (none or one)
RedisGet(c, key, time) == {e \in c : e.key = key /\ time < e.expires}

RedisSetWithoutExpiry(c, key, value, ttl, time) ==
    {e \in c : e.key # key}
        \cup {[key |-> key, value |-> value, expires |-> time + ttl + ttl]}

\* client.set(key, value, ex = ttl)
RedisSet(c, key, value, ttl, time) ==
    {e \in c : e.key # key}
        \cup {[key |-> key, value |-> value, expires |-> time + ttl]}

\* get_cached_answer(tenant_id, query_text): the set holding the cached dict,
\* empty for None
GetCachedAnswer(c, tenant_id, query_text, time) ==
    {JsonLoads(e.value) : e \in RedisGet(c, GetCacheKey(tenant_id, query_text), time)}

\* cache_answer(tenant_id, query_text, answer, ttl)
CacheAnswer(c, tenant_id, query_text, answer, ttl, time) ==
    RedisSet(c, GetCacheKey(tenant_id, query_text), JsonDumps(answer), ttl, time)

(***************************************************************************)
(* RAG orchestrator (rag.py).  An answer text is a sequence of lines; a    *)
(* line is [marker, text], marker i > 0 for the rendering "[i] text" and   *)
(* marker 0 for a line without citation marker.                            *)
(***************************************************************************)
TextLine(s) == [marker |-> 0, text |-> <<s>>]

NoDocumentsAnswer ==
    <<TextLine("No relevant documents found. Please upload documents first.")>>

FallbackPrefix == TextLine("LLM unavailable. Here are the most relevant chunks:")

\* what generate_answer may return when the LLM answers
LLMAnswers == {<<TextLine("llm answer 1")>>, <<TextLine("llm answer 2")>>}

\* the degraded answer built in the except branch of query_documents
FallbackAnswer(results) ==
    <<FallbackPrefix>>
        \o [i \in 1..Len(results) |-> [marker |-> i, text |-> results[i].text]]

QueryIds == {1, 2}

\* document_ids arguments of the queries; <<>> stands for None and for []
QueryDocIdLists == {<<>>, <<"d1">>}

NoResponse == [answer |-> <<>>, sources |-> <<>>, cached |-> FALSE]

\* the authenticated users and the organization of each (User.organization_id)
Users == {"uA", "uB"}
OrganizationId(u) == IF u = "uA" THEN "tA" ELSE "tB"

IdleQuery ==
    [pc |-> "idle", user |-> "uA", tenant_id |-> "tA", question |-> "q1",
     document_ids |-> <<>>,
     results |-> <<>>, answer |-> <<>>, response |-> NoResponse,
     raised |-> FALSE, llm_failed |-> FALSE, after_degraded |-> FALSE,
     calls |-> {}]

\* query_documents calls started over a behaviour
MaxQueries == 2

\* the endpoint, for the authenticated user u, calls
\* query_documents(str(current_user.organization_id), question, document_ids);
\* a request it rejects (question too long, rate limit) starts no run
\* (the frames are interchangeable: a call takes the first free one)
QueryStart(r, u, q, D) ==
    /\ queries[r].pc = "idle"
    /\ \A r2 \in QueryIds : queries[r2].pc = "idle" => r2 >= r
    /\ started < MaxQueries
    /\ started' = started + 1
    /\ queries' = [queries EXCEPT ![r] =
          [IdleQuery EXCEPT !.pc = "lookup", !.user = u,
                            !.tenant_id = OrganizationId(u), !.question = q,
                            !.document_ids = D,
                            !.after_degraded =
                                (GetCacheKey(OrganizationId(u), q) \in degraded)]]
    /\ UNCHANGED <<indexVars, call, cache, now, generated, degraded, lastWrite,
                   documents, files, procs>>

QueryLookupNoShortCircuit(r) ==
    LET f == queries[r] IN
    /\ f.pc = "lookup"
    /\ queries' = [queries EXCEPT ![r].pc = "search",
                                  ![r].calls = @ \cup {"get_cached_answer"}]
    /\ UNCHANGED <<indexVars, call, cache, now, generated, degraded, lastWrite,
                   procVars>>

\* rag.py step 1: cached = await get_cached_answer(...); if cached: return it
\* with cached["cached"] = True
QueryLookup(r) ==
    LET f == queries[r]
        cached == GetCachedAnswer(cache, f.tenant_id, f.question, now)
    IN
    /\ f.pc = "lookup"
    /\ IF cached # {}
       THEN \E c \in cached :
              queries' = [queries EXCEPT
                  ![r].pc = "done",
                  ![r].calls = @ \cup {"get_cached_answer"},
                  ![r].response = [c EXCEPT !.cached = TRUE]]
       ELSE queries' = [queries EXCEPT ![r].pc = "search",
                                       ![r].calls = @ \cup {"get_cached_answer"}]
    /\ UNCHANGED <<indexVars, call, cache, now, generated, degraded, lastWrite,
                   procVars>>

QuerySearchCachesNoDocuments(r) ==
    LET f == queries[r] IN
    /\ f.pc = "search"
    /\ \E results \in SearchSimilar(collections, f.tenant_id,
                                    GenerateEmbedding(f.question),
                                    DefaultTopK, f.document_ids) :
          IF results = <<>>
          THEN /\ queries' = [queries EXCEPT
                      ![r].pc = "done",
                      ![r].calls = @ \cup {"generate_embedding", "search_similar"},
                      ![r].response = [answer |-> NoDocumentsAnswer,
                                       sources |-> <<>>, cached |-> FALSE]]
               /\ cache' = CacheAnswer(cache, f.tenant_id, f.question,
                                       [answer |-> NoDocumentsAnswer,
                                        sources |-> <<>>, cached |-> FALSE],
                                       DefaultTTL, now)
          ELSE /\ queries' = [queries EXCEPT
                      ![r].pc = "generate",
                      ![r].calls = @ \cup {"generate_embedding", "search_similar"},
                      ![r].results = results]
               /\ cache' = cache
    /\ UNCHANGED <<indexVars, call, now, generated, degraded, lastWrite, procVars>>

\* rag.py steps 2-4: embed the question, search the tenant's collection, and
\* return the no-documents response when no chunk was found
QuerySearch(r) ==
    LET f == queries[r] IN
    /\ f.pc = "search"
    /\ \E results \in SearchSimilar(collections, f.tenant_id,
                                    GenerateEmbedding(f.question),
                                    DefaultTopK, f.document_ids) :
          LET chunks == [i \in 1..Len(results) |-> results[i].text] IN
          IF chunks = <<>>
          THEN queries' = [queries EXCEPT
                  ![r].pc = "done",
                  ![r].calls = @ \cup {"generate_embedding", "search_similar"},
                  ![r].response = [answer |-> NoDocumentsAnswer,
                                   sources |-> <<>>, cached |-> FALSE]]
          ELSE queries' = [queries EXCEPT
                  ![r].pc = "generate",
                  ![r].calls = @ \cup {"generate_embedding", "search_similar"},
                  ![r].results = results]
    /\ UNCHANGED <<indexVars, call, cache, now, generated, degraded, lastWrite,
                   procVars>>

QueryDegradeUnhandled(r) ==
    /\ queries' = [queries EXCEPT
          ![r].pc = "done",
          ![r].calls = @ \cup {"generate_answer"},
          ![r].llm_failed = TRUE,
          ![r].raised = TRUE]
    /\ UNCHANGED <<generated, degraded, cache, lastWrite>>

QueryDegradeCached(r) ==
    LET f == queries[r]
        response == [answer |-> FallbackAnswer(f.results),
                     sources |-> f.results, cached |-> FALSE]
    IN
    /\ queries' = [queries EXCEPT
          ![r].pc = "done",
          ![r].calls = @ \cup {"generate_answer"},
          ![r].llm_failed = TRUE,
          ![r].response = response]
    /\ degraded' = degraded \cup {GetCacheKey(f.tenant_id, f.question)}
    /\ cache' = CacheAnswer(cache, f.tenant_id, f.question, response,
                            DefaultTTL, now)
    /\ UNCHANGED <<generated, lastWrite>>

\* the except branch of step 5: the degraded response, returned uncached
QueryDegrade(r) ==
    LET f == queries[r] IN
    /\ queries' = [queries EXCEPT
          ![r].pc = "done",
          ![r].calls = @ \cup {"generate_answer"},
          ![r].llm_failed = TRUE,
          ![r].response = [answer |-> FallbackAnswer(f.results),
                           sources |-> f.results, cached |-> FALSE]]
    /\ degraded' = degraded \cup {GetCacheKey(f.tenant_id, f.question)}
    /\ UNCHANGED <<generated, cache, lastWrite>>

\* rag.py step 5: answer = await generate_answer(chunks, question), which
\* returns the LLM's text or raises
QueryGenerate(r) ==
    LET f == queries[r] IN
    /\ f.pc = "generate"
    /\ \/ \E a \in LLMAnswers :
            /\ queries' = [queries EXCEPT
                  ![r].pc = "store",
                  ![r].calls = @ \cup {"generate_answer"},
                  ![r].answer = a]
            /\ generated' = generated \cup {a}
            /\ UNCHANGED <<degraded, cache, lastWrite>>
       \/ QueryDegrade(r)
    /\ UNCHANGED <<indexVars, call, now, procVars>>

QueryStoreNoWrite(r) ==
    LET f == queries[r]
        response == [answer |-> f.answer, sources |-> f.results, cached |-> FALSE]
    IN
    /\ f.pc = "store"
    /\ queries' = [queries EXCEPT ![r].pc = "done", ![r].response = response]
    /\ UNCHANGED <<indexVars, call, now, generated, degraded, cache, lastWrite,
                   procVars>>

\* rag.py steps 6-7: build the response, await cache_answer(...), return it
QueryStore(r) ==
    LET f == queries[r]
        response == [answer |-> f.answer, sources |-> f.results, cached |-> FALSE]
        key == GetCacheKey(f.tenant_id, f.question)
    IN
    /\ f.pc = "store"
    /\ cache' = CacheAnswer(cache, f.tenant_id, f.question, response,
                            DefaultTTL, now)
    /\ queries' = [queries EXCEPT
          ![r].pc = "done",
          ![r].calls = @ \cup {"cache_answer"},
          ![r].response = response]
    /\ lastWrite' = {w \in lastWrite : w.key # key}
                        \cup {[key |-> key, response |-> response, at |-> now,
                               user |-> f.user]}
    /\ UNCHANGED <<indexVars, call, now, generated, degraded, procVars>>

\* the caller has the response; the run's frame is free again
QueryReturn(r) ==
    /\ queries[r].pc = "done"
    /\ queries' = [queries EXCEPT ![r] = IdleQuery]
    /\ UNCHANGED <<indexVars, call, cache, now, generated, degraded, lastWrite,
                   procVars>>

\* seconds by which one step of the clock advances it
TickStep == 1800
\* the clock stops after this many steps
MaxTicks == 2

\* time passes; Redis drops the entries whose ttl has elapsed
Tick ==
    /\ now + TickStep <= MaxTicks * TickStep
    /\ now' = now + TickStep
    /\ cache' = {e \in cache : now' < e.expires}
    /\ UNCHANGED <<indexVars, call, queries, generated, degraded, lastWrite,
                   procVars>>

\* the documents indexed before the queries start, as store_embeddings calls:
\* tenant tA has two documents, tenant tB has none and no collection
SeedStores ==
    <<[tenant |-> "tA", document |-> "d1", chunks |-> <<<<"a">>, <<"b", "b">>>>],
      [tenant |-> "tA", document |-> "d2", chunks |-> <<<<"a">>>>]>>

SeededIndex(S) ==
    LET step[i \in 0..Len(SeedStores)] ==
          IF i = 0 THEN [colls |-> [n \in CollectionNames |-> NoCollection], next |-> 1]
          ELSE IF i \notin S THEN step[i - 1]
          ELSE LET s == SeedStores[i]
                   pts == BuildPoints(s.document, s.chunks,
                                      GenerateEmbeddings(s.chunks), step[i - 1].next)
               IN [colls |-> Upsert(EnsureCollection(step[i - 1].colls, s.tenant),
                                    GetCollectionName(s.tenant), pts),
                   next |-> step[i - 1].next + Cardinality(pts)]
    IN step[Len(SeedStores)]

InitRag ==
    /\ collections = SeededIndex(1..Len(SeedStores)).colls
    /\ nextPointId = SeededIndex(1..Len(SeedStores)).next
    /\ call = NoCall
    /\ cache = {}
    /\ now = 0
    /\ queries = [r \in QueryIds |-> IdleQuery]
    /\ generated = {}
    /\ degraded = {}
    /\ lastWrite = {}
    /\ documents = <<>>
    /\ files = <<>>
    /\ procs = <<>>
    /\ started = 0

NextRag ==
    \/ \E r \in QueryIds, u \in Users, q \in Questions, D \in QueryDocIdLists :
          QueryStart(r, u, q, D)
    \/ \E r \in QueryIds : QueryLookup(r)
    \/ \E r \in QueryIds : QuerySearch(r)
    \/ \E r \in QueryIds : QueryGenerate(r)
    \/ \E r \in QueryIds : QueryStore(r)
    \/ \E r \in QueryIds : QueryReturn(r)
    \/ Tick

SpecRag == InitRag /\ [][NextRag]_vars

(***************************************************************************)
(* The query pipeline with a cache backend that may be unreachable: any    *)
(* Redis command of a run may raise (redis ConnectionError / TimeoutError) *)
(* instead of answering.                                                   *)
(***************************************************************************)
\* step 1 with the backend unreachable: client.get raises inside
\* get_cached_answer; neither it nor query_documents nor the endpoint has a
\* handler, so the call raises to the caller
QueryLookupUnavailable(r) ==
    LET f == queries[r] IN
    /\ f.pc = "lookup"
    /\ queries' = [queries EXCEPT ![r].pc = "done",
                                  ![r].calls = @ \cup {"get_cached_answer"},
                                  ![r].raised = TRUE]
    /\ UNCHANGED <<indexVars, call, cache, now, generated, degraded, lastWrite,
                   procVars>>

\* step 7 with the backend unreachable: client.set raises inside cache_answer,
\* after the answer was generated; the call raises to the caller
QueryStoreUnavailable(r) ==
    LET f == queries[r] IN
    /\ f.pc = "store"
    /\ queries' = [queries EXCEPT ![r].pc = "done",
                                  ![r].calls = @ \cup {"cache_answer"},
                                  ![r].raised = TRUE]
    /\ UNCHANGED <<indexVars, call, cache, now, generated, degraded, lastWrite,
                   procVars>>

OutageQuestions == {"q1"}

NextRagOutage ==
    \/ \E r \in QueryIds, u \in Users, q \in OutageQuestions, D \in QueryDocIdLists :
          QueryStart(r, u, q, D)
    \/ \E r \in QueryIds : QueryLookup(r)
    \/ \E r \in QueryIds : QueryLookupUnavailable(r)
    \/ \E r \in QueryIds : QuerySearch(r)
    \/ \E r \in QueryIds : QueryGenerate(r)
    \/ \E r \in QueryIds : QueryStore(r)
    \/ \E r \in QueryIds : QueryStoreUnavailable(r)
    \/ \E r \in QueryIds : QueryReturn(r)

SpecRagOutage == InitRag /\ [][NextRagOutage]_vars

(***************************************************************************)
(* The query pipeline with an Answer Generator that may not return:        *)
(* generate_answer calls client.models.generate_content with no timeout    *)
(* (llm.py:112) and query_documents awaits it with none (rag.py:119), so   *)
(* a run whose call does not return stays at that call.  Every run that    *)
(* can take a step eventually takes it.                                    *)
(***************************************************************************)
\* generate_content does not return
QueryGenerateBlocks(r) ==
    /\ queries[r].pc = "generate"
    /\ queries' = [queries EXCEPT ![r].pc = "blocked",
                                  ![r].calls = @ \cup {"generate_answer"}]
    /\ UNCHANGED <<indexVars, call, cache, now, generated, degraded, lastWrite,
                   procVars>>

\* the steps of run r once it has started
QueryStep(r) ==
    \/ QueryLookup(r)
    \/ QuerySearch(r)
    \/ QueryGenerate(r)
    \/ QueryGenerateBlocks(r)
    \/ QueryStore(r)
    \/ QueryReturn(r)

NextRagHang ==
    \/ \E r \in QueryIds, u \in Users, q \in OutageQuestions, D \in QueryDocIdLists :
          QueryStart(r, u, q, D)
    \/ \E r \in QueryIds : QueryLookup(r)
    \/ \E r \in QueryIds : QuerySearch(r)
    \/ \E r \in QueryIds : QueryGenerate(r)
    \/ \E r \in QueryIds : QueryGenerateBlocks(r)
    \/ \E r \in QueryIds : QueryStore(r)
    \/ \E r \in QueryIds : QueryReturn(r)

SpecRagHang ==
    InitRag /\ [][NextRagHang]_vars /\ \A r \in QueryIds : WF_vars(QueryStep(r))

(***************************************************************************)
(* Two tenants sharing the deployment: each has a user, documents are      *)
(* indexed while queries run.                                              *)
(***************************************************************************)
\* the documents of the two tenants, as the store_embeddings calls of their
\* processing; the chunk of d2 has the text of a chunk of d1
TenantStores ==
    <<[tenant |-> "tA", document |-> "d1", chunks |-> <<<<"a">>, <<"b", "b">>>>],
      [tenant |-> "tB", document |-> "d2", chunks |-> <<<<"a">>>>]>>

\* the tenant a document was uploaded by
TenantOfDocument(d) ==
    TenantStores[CHOOSE i \in 1..Len(TenantStores) :
                     TenantStores[i].document = d].tenant

TenantQuestions == {"q1"}
TenantDocIdLists == {<<>>, <<"d1">>, <<"d2">>}

\* store_embeddings(tenant, document, chunks, generate_embeddings(chunks)) of
\* the i-th document, once
TenantStore(i) ==
    LET s == TenantStores[i]
        name == GetCollectionName(s.tenant)
        points == BuildPoints(s.document, s.chunks, GenerateEmbeddings(s.chunks),
                              nextPointId)
    IN
    /\ \A n \in CollectionNames :
          \A p \in collections[n].points : p.document_id # s.document
    /\ collections' = Upsert(EnsureCollection(collections, s.tenant), name, points)
    /\ nextPointId' = nextPointId + Cardinality(points)
    /\ UNCHANGED <<call, cache, now, ragVars, procVars>>

InitTenants ==
    /\ collections = [n \in CollectionNames |-> NoCollection]
    /\ nextPointId = 1
    /\ call = NoCall
    /\ cache = {}
    /\ now = 0
    /\ queries = [r \in QueryIds |-> IdleQuery]
    /\ generated = {}
    /\ degraded = {}
    /\ lastWrite = {}
    /\ documents = <<>>
    /\ files = <<>>
    /\ procs = <<>>
    /\ started = 0

NextTenants ==
    \/ \E i \in 1..Len(TenantStores) : TenantStore(i)
    \/ \E r \in QueryIds, u \in Users, q \in TenantQuestions, D \in TenantDocIdLists :
          QueryStart(r, u, q, D)
    \/ \E r \in QueryIds : QueryLookup(r)
    \/ \E r \in QueryIds : QuerySearch(r)
    \/ \E r \in QueryIds : QueryGenerate(r)
    \/ \E r \in QueryIds : QueryStore(r)
    \/ \E r \in QueryIds : QueryReturn(r)

SpecTenants == InitTenants /\ [][NextTenants]_vars

(***************************************************************************)
(* SpecCache: the cache API of cache.py, one call per step, with the clock *)
(* advancing between calls.  `call` records the last call and its result;  *)
(* lastWrite records, per key, the latest cache_answer call.               *)
(***************************************************************************)
\* cache_answer calls in one behaviour
MaxCacheWrites == 2

\* tenant ids and questions tried, some holding the separator of the key
CacheTenants == {"tA", "tA:x"}
CacheQuestions == {"x:y", "y"}
CacheTTLs == {TickStep, DefaultTTL}
CachePayloads ==
    {[answer |-> <<TextLine("llm answer 1")>>, sources |-> <<>>, cached |-> FALSE],
     [answer |-> <<TextLine("llm answer 2")>>,
      sources |-> <<[text |-> <<"a">>, document_id |-> "d1", chunk_index |-> 0,
                     score |-> 2]>>,
      cached |-> FALSE]}

CacheCall(op, t, q) ==
    [op |-> op, tenant |-> t, question |-> q, key |-> GetCacheKey(t, q),
     at |-> now, payload |-> NoResponse, ttl |-> 0, result |-> {}]

\* await cache_answer(t, q, p, ttl)
CacheAnswerCall(t, q, p, ttl) ==
    /\ started < MaxCacheWrites
    /\ started' = started + 1
    /\ cache' = CacheAnswer(cache, t, q, p, ttl, now)
    /\ call' = [CacheCall("cache_answer", t, q) EXCEPT !.payload = p, !.ttl = ttl]
    /\ lastWrite' = {w \in lastWrite : w.key # GetCacheKey(t, q)}
                       \cup {[key |-> GetCacheKey(t, q), tenant |-> t, question |-> q,
                              response |-> p, at |-> now, ttl |-> ttl]}
    /\ UNCHANGED <<indexVars, now, queries, generated, degraded, documents, files,
                   procs>>

\* await get_cached_answer(t, q)
GetCachedAnswerCall(t, q) ==
    /\ call' = [CacheCall("get_cached_answer", t, q)
                   EXCEPT !.result = GetCachedAnswer(cache, t, q, now)]
    /\ UNCHANGED <<indexVars, ragVars, procVars, now>>

NextCache ==
    \/ \E t \in CacheTenants, q \in CacheQuestions, p \in CachePayloads,
          ttl \in CacheTTLs : CacheAnswerCall(t, q, p, ttl)
    \/ \E t \in CacheTenants, q \in CacheQuestions : GetCachedAnswerCall(t, q)
    \/ Tick

SpecCache == InitIndex /\ [][NextCache]_vars

(***************************************************************************)
(* Chunker (chunker.py).                                                   *)
(***************************************************************************)
Whitespace == {" ", "\t", "\n"}

IsBlankOnlyEmpty(text) == text = <<>>

\* not text or not text.strip()
IsBlank(text) == text = <<>> \/ \A i \in 1..Len(text) : text[i] \in Whitespace

\* text[l:r] of Python, 0 <= l, for a sequence
Slice(text, l, r) == SubSeq(text, l + 1, Min(r, Len(text)))

\* the while loop of chunk_text, entered with r already advanced by chunk_size
RECURSIVE ChunkLoop(_, _, _, _, _, _)
ChunkLoop(text, chunk_size, overlap, l, r, chunks) ==
    IF ~(l < Len(text)) THEN chunks
    ELSE IF r + chunk_size >= Len(text)
         THEN Append(chunks, Slice(text, l, Len(text)))
         ELSE ChunkLoop(text, chunk_size, overlap,
                        r + chunk_size - overlap, r + chunk_size - overlap,
                        Append(chunks, Slice(text, l, r + chunk_size)))

\* chunk_text(text, chunk_size, overlap)
ChunkText(text, chunk_size, overlap) ==
    IF IsBlank(text) THEN <<>>
    ELSE ChunkLoop(text, chunk_size, overlap, 0, 0, <<>>)

(***************************************************************************)
(* SpecChunk: one chunk_text call, one loop iteration per step.  The call  *)
(* frame is kept in `call`; l and r are the pointers of the code and may   *)
(* become negative when overlap > chunk_size.                              *)
(***************************************************************************)
\* longest text tried, apart from the scenario text
MaxTextLen == 5
\* largest chunk_size tried, apart from the scenario
MaxChunkSize == 3

ChunkChars == {"a", "b", " "}
ChunkSizes == 0..MaxChunkSize
Overlaps == (-1)..(MaxChunkSize + 1)

\* "A" * 1000 chunked with chunk_size=100, overlap=10 (test_chunker.py)
ScenarioLen == 1000
ScenarioChunkSize == 100
ScenarioOverlap == 10
ScenarioTexts ==
    {[i \in 1..ScenarioLen |-> "A"],
     [i \in 1..ScenarioLen |-> IF i % 7 = 0 THEN "a" ELSE IF i % 3 = 0 THEN "b" ELSE "c"]}

\* text[l:r] of Python for any integers l and r
PySlice(text, l, r) ==
    LET n == Len(text)
        lo == IF l < 0 THEN (IF l + n < 0 THEN 0 ELSE l + n) ELSE Min(l, n)
        hi == IF r < 0 THEN (IF r + n < 0 THEN 0 ELSE r + n) ELSE Min(r, n)
    IN SubSeq(text, lo + 1, hi)

ChunkCall(text, chunk_size, overlap) ==
    [op |-> "chunk_text", pc |-> "start", text |-> text,
     chunk_size |-> chunk_size, overlap |-> overlap,
     l |-> 0, r |-> 0, chunks |-> <<>>, raised |-> FALSE]

\* lines 30-39: the blank test, then l, r = 0, 0
ChunkEnter ==
    /\ call.op = "chunk_text"
    /\ call.pc = "start"
    /\ call' = IF IsBlank(call.text)
               THEN [call EXCEPT !.pc = "returned"]
               ELSE [call EXCEPT !.pc = "loop"]
    /\ UNCHANGED <<indexVars, ragVars, procVars, now>>

ChunkIterateStopsShort ==
    LET r2 == call.r + call.chunk_size IN
    IF ~(call.l < Len(call.text)) \/ r2 >= Len(call.text)
    THEN [call EXCEPT !.pc = "returned"]
    ELSE [call EXCEPT !.chunks = Append(@, PySlice(call.text, call.l, r2)),
                      !.r = r2 - call.overlap, !.l = r2 - call.overlap]

ChunkIterateSkipsOne ==
    LET r2 == call.r + call.chunk_size IN
    IF ~(call.l < Len(call.text))
    THEN [call EXCEPT !.pc = "returned"]
    ELSE IF r2 >= Len(call.text)
         THEN [call EXCEPT !.chunks = Append(@, PySlice(call.text, call.l, Len(call.text))),
                           !.r = r2, !.pc = "returned"]
         ELSE [call EXCEPT !.chunks = Append(@, PySlice(call.text, call.l, r2)),
                           !.r = r2 - call.overlap + 1, !.l = r2 - call.overlap + 1]

ChunkIterateIgnoresOverlap ==
    LET r2 == call.r + call.chunk_size IN
    IF ~(call.l < Len(call.text))
    THEN [call EXCEPT !.pc = "returned"]
    ELSE IF r2 >= Len(call.text)
         THEN [call EXCEPT !.chunks = Append(@, PySlice(call.text, call.l, Len(call.text))),
                           !.r = r2, !.pc = "returned"]
         ELSE [call EXCEPT !.chunks = Append(@, PySlice(call.text, call.l, r2)),
                           !.r = r2, !.l = r2]

ChunkIterateNoBreak ==
    LET r2 == call.r + call.chunk_size IN
    IF ~(call.l < Len(call.text))
    THEN [call EXCEPT !.pc = "returned"]
    ELSE [call EXCEPT !.chunks = Append(@, PySlice(call.text, call.l, r2)),
                      !.r = r2 - call.overlap, !.l = r2 - call.overlap]

ChunkIterateStrictEnd ==
    LET r2 == call.r + call.chunk_size IN
    IF ~(call.l < Len(call.text))
    THEN [call EXCEPT !.pc = "returned"]
    ELSE IF r2 > Len(call.text)
         THEN [call EXCEPT !.chunks = Append(@, PySlice(call.text, call.l, Len(call.text))),
                           !.r = r2, !.pc = "returned"]
         ELSE [call EXCEPT !.chunks = Append(@, PySlice(call.text, call.l, r2)),
                           !.r = r2 - call.overlap, !.l = r2 - call.overlap]

\* the frame after one test of the while condition and one pass of its body
\* (lines 41-57); `return chunks` (line 59) when the loop is left
ChunkIterateFrame ==
    LET r2 == call.r + call.chunk_size IN
    IF ~(call.l < Len(call.text))
    THEN [call EXCEPT !.pc = "returned"]
    ELSE IF r2 >= Len(call.text)
         THEN [call EXCEPT !.chunks = Append(@, PySlice(call.text, call.l, Len(call.text))),
                           !.r = r2, !.pc = "returned"]
         ELSE [call EXCEPT !.chunks = Append(@, PySlice(call.text, call.l, r2)),
                           !.r = r2 - call.overlap, !.l = r2 - call.overlap]

\* one iteration; a run is followed until it has emitted more chunks than
\* the text has characters
ChunkIterate ==
    /\ call.op = "chunk_text"
    /\ call.pc = "loop"
    /\ Len(call.chunks) <= Len(call.text)
    /\ call' = ChunkIterateFrame
    /\ UNCHANGED <<indexVars, ragVars, procVars, now>>

InitChunk ==
    /\ \/ \E text \in SeqsUpTo(ChunkChars, MaxTextLen),
             chunk_size \in ChunkSizes, overlap \in Overlaps :
             call = ChunkCall(text, chunk_size, overlap)
       \/ \E text \in ScenarioTexts :
             call = ChunkCall(text, ScenarioChunkSize, ScenarioOverlap)
    /\ collections = [n \in CollectionNames |-> NoCollection]
    /\ nextPointId = 1
    /\ cache = {}
    /\ now = 0
    /\ queries = <<>>
    /\ generated = {}
    /\ degraded = {}
    /\ lastWrite = {}
    /\ documents = <<>>
    /\ files = <<>>
    /\ procs = <<>>
    /\ started = 0

NextChunk == ChunkEnter \/ ChunkIterate

SpecChunk == InitChunk /\ [][NextChunk]_vars

\* chunk_text is sequential code: a call that can take a step takes it
SpecChunkFair == InitChunk /\ [][NextChunk]_vars /\ WF_vars(NextChunk)

(***************************************************************************)
(* Text extractor (text_extractor.py).  A path is a sequence of            *)
(* characters.                                                             *)
(***************************************************************************)
\* str.lower() on the characters used in paths
Lower(c) ==
    CASE c = "P" -> "p" [] c = "D" -> "d" [] c = "F" -> "f"
      [] c = "T" -> "t" [] c = "X" -> "x" [] OTHER -> c

\* file_path.rsplit(".", 1)[-1]: the text after the last ".", the whole
\* path when it holds none
RSplitLast(file_path) ==
    LET dots == {i \in 1..Len(file_path) : file_path[i] = "."} IN
    IF dots = {} THEN file_path
    ELSE LET last == CHOOSE i \in dots : \A j \in dots : j <= i
         IN SubSeq(file_path, last + 1, Len(file_path))

PdfExtension == <<"p", "d", "f">>
TxtExtension == <<"t", "x", "t">>
DocxExtension == <<"d", "o", "c", "x">>

\* ValueError(f"Unsupported file type: {extension}")
UnsupportedTypeError(extension) ==
    [what |-> "Unsupported file type", len |-> 23 + Len(extension)]

\* extension = file_path.rsplit(".", 1)[-1].lower()
ExtensionOf(file_path) ==
    [i \in 1..Len(RSplitLast(file_path)) |-> Lower(RSplitLast(file_path)[i])]

\* extract_text(file_path): the extractor the path is handed to, or the
\* ValueError raised
ExtractText(file_path) ==
    LET extension == ExtensionOf(file_path) IN
    IF extension = PdfExtension THEN [raised |-> FALSE, extractor |-> "extract_from_pdf"]
    ELSE IF extension = TxtExtension
         THEN [raised |-> FALSE, extractor |-> "extract_from_txt"]
    ELSE IF extension = DocxExtension
         THEN [raised |-> FALSE, extractor |-> "extract_from_docx"]
    ELSE [raised |-> TRUE, extractor |-> "none"]

\* save_file: uploads/{tenant_id}/{document_id}/original.{extension}, of
\* which the file name is kept
StoredPath(extension) == <<"o", "r", "i", "g", "i", "n", "a", "l", ".">> \o extension

(***************************************************************************)
(* Document processor (processor.py) and upload (documents.py).            *)
(***************************************************************************)
\* chunk_text(text, chunk_size=512, overlap=50) in process_document
ProcessChunkSize == 512
ProcessOverlap == 50
\* str(e)[:1000]
ErrorMessageCap == 1000

\* processed_at is NULL
NoTime == -1
\* error_message is NULL
NoMessage == [what |-> "None", len |-> 0]

\* an exception is its message: a label and the length of str(e)
Message(what, len) == [what |-> what, len |-> len]

\* str(e)[:n]
Truncate(m, n) == [m EXCEPT !.len = Min(m.len, n)]

\* what a collaborator (extractor library, embedding model, Qdrant client) may
\* raise: an exception without message, or with one longer than the cap
CollaboratorErrors ==
    {Message("no message", 0), Message("long message", ErrorMessageCap + 1)}

NoTextError == Message("No text could be extracted from document", 40)
NoChunksError == Message("No chunks generated from text", 29)
CollectionExistsError == Message("Collection already exists", 25)

\* the text layer of an uploaded file: whitespace only, less than one chunk,
\* more than one chunk
LongText == [i \in 1..(ProcessChunkSize + 8) |-> "x"]
FileTexts == {<<" ", "\n">>, <<"a", "b", "c">>, LongText}

ProcIds == {1, 2}

NoDocument ==
    [exists |-> FALSE, tenant_id |-> "tA", status |-> "queued", chunks_count |-> 0,
     processed_at |-> NoTime, error_message |-> NoMessage,
     file_path |-> StoredPath(TxtExtension)]

\* Document(id, tenant_id, ..., status="queued") with the column defaults
NewDocument(t) == [NoDocument EXCEPT !.exists = TRUE, !.tenant_id = t]

NoResult == [processed |-> 0, failed |-> 0, total |-> 0]

IdleProc ==
    [op |-> "none", pc |-> "idle", document_id |-> "d1", tenant_id |-> "tA",
     queue |-> <<>>, selected |-> <<>>, processed |-> 0, failed |-> 0,
     result |-> NoResult,
     text |-> <<>>, chunks |-> <<>>, embeddings |-> <<>>, error |-> NoMessage,
     upserted |-> {}, had_error |-> FALSE, ret |-> FALSE, raised |-> FALSE,
     interfered |-> FALSE, log |-> <<>>, file_path |-> StoredPath(TxtExtension)]

\* processor operations started over a behaviour
MaxOps == 2

\* the first free process slot takes the operation
CanStart(p) ==
    /\ procs[p].pc = "idle"
    /\ \A p2 \in ProcIds : procs[p2].pc = "idle" => p2 >= p
    /\ started < MaxOps

\* the locals of one process_document call, reset at its entry
EnterProcessDocument(f, d) ==
    [f EXCEPT !.pc = "pd_fetch", !.document_id = d, !.text = <<>>,
              !.chunks = <<>>, !.embeddings = <<>>, !.error = NoMessage,
              !.upserted = {}, !.had_error = FALSE, !.ret = FALSE, !.log = <<>>]

Logged(f, step, ok) == Append(f.log, [step |-> step, ok |-> ok])

\* history: run p has written or deleted points of document d; the
\* reprocess runs of the other processes on d have not run alone
Interfere(ps, p, d) ==
    [q \in ProcIds |->
        IF q # p /\ ps[q].op = "reprocess" /\ ps[q].document_id = d
        THEN [ps[q] EXCEPT !.interfered = TRUE]
        ELSE ps[q]]

\* doc_id = uuid.uuid4(): an id no document has
Uuid4(docs) == CHOOSE d \in DocIds : ~docs[d].exists

\* upload_document: save the file, insert the row with status queued, commit,
\* then run process_document inline
UploadDocument(p, t, text) ==
    /\ CanStart(p)
    /\ \E d \in DocIds : ~documents[d].exists
    /\ LET d == Uuid4(documents) IN
          /\ files' = [files EXCEPT ![d] = text]
          /\ documents' = [documents EXCEPT ![d] = NewDocument(t)]
          /\ procs' = [procs EXCEPT ![p] =
                EnterProcessDocument([IdleProc EXCEPT !.op = "upload"], d)]
    /\ started' = started + 1
    /\ UNCHANGED <<indexVars, call, ragVars, now>>

\* process_document: select the document; return False when there is none
PDFetch(p) ==
    LET f == procs[p] IN
    /\ f.pc = "pd_fetch"
    /\ IF documents[f.document_id].exists
       THEN procs' = [procs EXCEPT ![p].pc = "pd_mark",
                        ![p].tenant_id = documents[f.document_id].tenant_id,
                        ![p].file_path = documents[f.document_id].file_path]
       ELSE procs' = [procs EXCEPT ![p].pc = "pd_return", ![p].ret = FALSE]
    /\ UNCHANGED <<indexVars, call, ragVars, now, documents, files, started>>

\* document.status = "processing"; await db.commit()
PDMark(p) ==
    LET f == procs[p] IN
    /\ f.pc = "pd_mark"
    /\ documents' = [documents EXCEPT ![f.document_id].status = "processing"]
    /\ procs' = [procs EXCEPT ![p].pc = "pd_extract",
                              ![p].log = Logged(f, "processing", TRUE)]
    /\ UNCHANGED <<indexVars, call, ragVars, now, files, started>>

\* text = extract_text(document.file_path), which raises for an unsupported
\* type and whose extractor may raise; a blank text raises ValueError
PDExtract(p) ==
    LET f == procs[p]
        text == files[f.document_id]
    IN
    /\ f.pc = "pd_extract"
    /\ IF ExtractText(f.file_path).raised
       THEN procs' = [procs EXCEPT ![p].pc = "pd_fail",
                         ![p].error = UnsupportedTypeError(ExtensionOf(f.file_path)),
                         ![p].log = Logged(f, "extract", FALSE)]
       ELSE \/ \E e \in CollaboratorErrors :
                 procs' = [procs EXCEPT ![p].pc = "pd_fail", ![p].error = e,
                                        ![p].log = Logged(f, "extract", FALSE)]
            \/ IF IsBlank(text)
               THEN procs' = [procs EXCEPT ![p].pc = "pd_fail", ![p].error = NoTextError,
                                           ![p].log = Logged(f, "extract", FALSE)]
               ELSE procs' = [procs EXCEPT ![p].pc = "pd_chunk", ![p].text = text,
                                           ![p].log = Logged(f, "extract", TRUE)]
    /\ UNCHANGED <<indexVars, call, ragVars, now, documents, files, started>>

\* chunks = chunk_text(text, chunk_size=512, overlap=50); no chunks raises
PDChunk(p) ==
    LET f == procs[p]
        chunks == ChunkText(f.text, ProcessChunkSize, ProcessOverlap)
    IN
    /\ f.pc = "pd_chunk"
    /\ IF chunks = <<>>
       THEN procs' = [procs EXCEPT ![p].pc = "pd_fail", ![p].error = NoChunksError,
                                   ![p].log = Logged(f, "chunk", FALSE)]
       ELSE procs' = [procs EXCEPT ![p].pc = "pd_embed", ![p].chunks = chunks,
                                   ![p].text = <<>>,
                                   ![p].log = Logged(f, "chunk", TRUE)]
    /\ UNCHANGED <<indexVars, call, ragVars, now, documents, files, started>>

\* embeddings = generate_embeddings(chunks), which may raise
PDEmbed(p) ==
    LET f == procs[p] IN
    /\ f.pc = "pd_embed"
    /\ \/ \E e \in CollaboratorErrors :
            procs' = [procs EXCEPT ![p].pc = "pd_fail", ![p].error = e,
                                   ![p].log = Logged(f, "embed", FALSE)]
       \/ procs' = [procs EXCEPT ![p].pc = "pd_ensure",
                                 ![p].embeddings = GenerateEmbeddings(f.chunks),
                                 ![p].log = Logged(f, "embed", TRUE)]
    /\ UNCHANGED <<indexVars, call, ragVars, now, documents, files, started>>

\* store_embeddings, ensure_collection: list the collections and look for the
\* tenant's
PDEnsure(p) ==
    LET f == procs[p] IN
    /\ f.pc = "pd_ensure"
    /\ IF GetCollectionName(f.tenant_id) \notin ExistingNames(collections)
       THEN procs' = [procs EXCEPT ![p].pc = "pd_create"]
       ELSE procs' = [procs EXCEPT ![p].pc = "pd_upsert"]
    /\ UNCHANGED <<indexVars, call, ragVars, now, documents, files, started>>

\* store_embeddings, ensure_collection: client.create_collection, which raises
\* when the collection exists by now
PDCreate(p) ==
    LET f == procs[p]
        name == GetCollectionName(f.tenant_id)
    IN
    /\ f.pc = "pd_create"
    /\ IF name \in ExistingNames(collections)
       THEN /\ procs' = [procs EXCEPT ![p].pc = "pd_fail",
                                      ![p].error = CollectionExistsError,
                                      ![p].log = Logged(f, "upsert", FALSE)]
            /\ UNCHANGED collections
       ELSE /\ collections' = [collections EXCEPT
                                  ![name] = [exists |-> TRUE, points |-> {}]]
            /\ procs' = [procs EXCEPT ![p].pc = "pd_upsert"]
    /\ UNCHANGED <<nextPointId, call, ragVars, now, documents, files, started>>

PDUpsertSwallowsError(p) ==
    LET f == procs[p] IN
    /\ f.pc = "pd_upsert"
    /\ \E e \in CollaboratorErrors :
          procs' = [procs EXCEPT ![p].pc = "pd_ready", ![p].error = e,
                                 ![p].log = Logged(f, "upsert", FALSE)]
    /\ UNCHANGED <<indexVars, call, ragVars, now, documents, files, started>>

\* store_embeddings: build one point per (chunk, embedding) pair and upsert
\* them in one batch, which may raise
PDUpsert(p) ==
    LET f == procs[p]
        points == BuildPoints(f.document_id, f.chunks, f.embeddings, nextPointId)
    IN
    /\ f.pc = "pd_upsert"
    /\ \/ /\ \E e \in CollaboratorErrors :
               procs' = [procs EXCEPT ![p].pc = "pd_fail", ![p].error = e,
                                      ![p].log = Logged(f, "upsert", FALSE)]
          /\ UNCHANGED indexVars
       \/ /\ collections' = Upsert(collections, GetCollectionName(f.tenant_id), points)
          /\ nextPointId' = nextPointId + Cardinality(points)
          /\ procs' = Interfere(
                          [procs EXCEPT ![p].pc = "pd_ready",
                                        ![p].upserted = {pt.id : pt \in points},
                                        ![p].embeddings = <<>>,
                                        ![p].log = Logged(f, "upsert", TRUE)],
                          p, f.document_id)
    /\ UNCHANGED <<call, ragVars, now, documents, files, started>>

PDReadyKeepsError(p) ==
    LET f == procs[p] IN
    /\ f.pc = "pd_ready"
    /\ documents' = [documents EXCEPT
          ![f.document_id].status = "ready",
          ![f.document_id].chunks_count = Len(f.chunks),
          ![f.document_id].processed_at = now]
    /\ procs' = [procs EXCEPT
          ![p].pc = "pd_return", ![p].ret = TRUE,
          ![p].had_error = (documents[f.document_id].error_message # NoMessage),
          ![p].log = Logged(f, "ready", TRUE)]
    /\ UNCHANGED <<indexVars, call, ragVars, now, files, started>>

\* status ready, chunks_count = len(chunks), processed_at = utcnow(),
\* error_message = None; commit; return True
PDReady(p) ==
    LET f == procs[p] IN
    /\ f.pc = "pd_ready"
    /\ documents' = [documents EXCEPT
          ![f.document_id].status = "ready",
          ![f.document_id].chunks_count = Len(f.chunks),
          ![f.document_id].processed_at = now,
          ![f.document_id].error_message = NoMessage]
    /\ procs' = [procs EXCEPT
          ![p].pc = "pd_return", ![p].ret = TRUE,
          ![p].had_error = (documents[f.document_id].error_message # NoMessage),
          ![p].log = Logged(f, "ready", TRUE)]
    /\ UNCHANGED <<indexVars, call, ragVars, now, files, started>>

\* except Exception as e: status failed, error_message = str(e)[:1000],
\* processed_at = utcnow(); commit; return False
PDFail(p) ==
    LET f == procs[p] IN
    /\ f.pc = "pd_fail"
    /\ documents' = [documents EXCEPT
          ![f.document_id].status = "failed",
          ![f.document_id].error_message = Truncate(f.error, ErrorMessageCap),
          ![f.document_id].processed_at = now]
    /\ procs' = [procs EXCEPT ![p].pc = "pd_return", ![p].ret = FALSE,
                              ![p].log = Logged(f, "failed", TRUE)]
    /\ UNCHANGED <<indexVars, call, ragVars, now, files, started>>

\* upload_document and reprocess_document return once process_document has
ProcReturn(p) ==
    /\ procs[p].pc = "pd_return"
    /\ procs[p].op \in {"upload", "reprocess"}
    /\ procs' = [procs EXCEPT ![p] = IdleProc]
    /\ UNCHANGED <<indexVars, call, ragVars, now, documents, files, started>>

\* reprocess_document: select the document; return False when there is none
ReprocessDocument(p, d) ==
    /\ CanStart(p)
    /\ IF documents[d].exists
       THEN procs' = [procs EXCEPT ![p] =
               [IdleProc EXCEPT !.op = "reprocess", !.pc = "rp_delete",
                                !.document_id = d,
                                !.tenant_id = documents[d].tenant_id]]
       ELSE procs' = [procs EXCEPT ![p] =
               [IdleProc EXCEPT !.op = "reprocess", !.pc = "pd_return",
                                !.document_id = d, !.ret = FALSE]]
    /\ started' = started + 1
    /\ UNCHANGED <<indexVars, call, ragVars, now, documents, files>>

RPDeleteVectorsSkipped(p) ==
    LET f == procs[p] IN
    /\ f.pc = "rp_delete"
    /\ collections' = collections
    /\ procs' = [procs EXCEPT ![p].pc = "rp_reset"]
    /\ UNCHANGED <<nextPointId, call, ragVars, now, documents, files, started>>

\* reprocess_document: delete_document_vectors(tenant_id, document_id), which
\* may raise; reprocess_document does not catch it
RPDeleteVectors(p) ==
    LET f == procs[p] IN
    /\ f.pc = "rp_delete"
    /\ \/ /\ \E e \in CollaboratorErrors :
               procs' = [procs EXCEPT ![p].pc = "pd_return", ![p].error = e,
                                      ![p].raised = TRUE]
          /\ UNCHANGED collections
       \/ /\ collections' =
                DeleteDocumentVectors(collections, f.tenant_id, f.document_id)
          /\ procs' = Interfere([procs EXCEPT ![p].pc = "rp_reset"],
                                p, f.document_id)
    /\ UNCHANGED <<nextPointId, call, ragVars, now, documents, files, started>>

\* reprocess_document: status queued, chunks_count 0, processed_at and
\* error_message None; commit; then process_document
RPReset(p) ==
    LET f == procs[p] IN
    /\ f.pc = "rp_reset"
    /\ documents' = [documents EXCEPT
          ![f.document_id].status = "queued",
          ![f.document_id].chunks_count = 0,
          ![f.document_id].processed_at = NoTime,
          ![f.document_id].error_message = NoMessage]
    /\ procs' = [procs EXCEPT ![p] = EnterProcessDocument(f, f.document_id)]
    /\ UNCHANGED <<indexVars, call, ragVars, now, files, started>>

\* the orders in which a select without ORDER BY may list the rows
Orderings(S) ==
    {s \in [1..Cardinality(S) -> S] :
        \A i, j \in 1..Cardinality(S) : i # j => s[i] # s[j]}

\* process_all_queued: select the queued documents, start the loop
ProcessAllQueued(p) ==
    /\ CanStart(p)
    /\ \E queue \in Orderings({d \in DocIds : documents[d].exists
                                              /\ documents[d].status = "queued"}) :
          IF queue = <<>>
          THEN procs' = [procs EXCEPT ![p] =
                  [IdleProc EXCEPT !.op = "batch", !.pc = "done"]]
          ELSE procs' = [procs EXCEPT ![p] =
                  EnterProcessDocument(
                      [IdleProc EXCEPT !.op = "batch", !.queue = queue,
                                       !.selected = queue], queue[1])]
    /\ started' = started + 1
    /\ UNCHANGED <<indexVars, call, ragVars, now, documents, files>>

PAQTallyStopsOnFailure(p) ==
    LET f == procs[p]
        processed == IF f.ret THEN f.processed + 1 ELSE f.processed
        failed == IF f.ret THEN f.failed ELSE f.failed + 1
        rest == Tail(f.queue)
    IN
    /\ f.pc = "pd_return"
    /\ f.op = "batch"
    /\ IF rest = <<>> \/ ~f.ret
       THEN procs' = [procs EXCEPT ![p] =
               [IdleProc EXCEPT !.op = "batch", !.pc = "done",
                                !.selected = f.selected,
                                !.processed = processed, !.failed = failed,
                                !.result = [processed |-> processed,
                                            failed |-> failed,
                                            total |-> processed + failed]]]
       ELSE procs' = [procs EXCEPT ![p] =
               EnterProcessDocument(
                   [f EXCEPT !.queue = rest, !.processed = processed,
                             !.failed = failed], rest[1])]
    /\ UNCHANGED <<indexVars, call, ragVars, now, documents, files, started>>

\* process_all_queued: count the outcome of one process_document call and go
\* on with the next document, or return the counts after the last
PAQTally(p) ==
    LET f == procs[p]
        processed == IF f.ret THEN f.processed + 1 ELSE f.processed
        failed == IF f.ret THEN f.failed ELSE f.failed + 1
        rest == Tail(f.queue)
    IN
    /\ f.pc = "pd_return"
    /\ f.op = "batch"
    /\ IF rest = <<>>
       THEN procs' = [procs EXCEPT ![p] =
               [IdleProc EXCEPT !.op = "batch", !.pc = "done",
                                !.selected = f.selected,
                                !.processed = processed, !.failed = failed,
                                !.result = [processed |-> processed,
                                            failed |-> failed,
                                            total |-> processed + failed]]]
       ELSE procs' = [procs EXCEPT ![p] =
               EnterProcessDocument(
                   [f EXCEPT !.queue = rest, !.processed = processed,
                             !.failed = failed], rest[1])]
    /\ UNCHANGED <<indexVars, call, ragVars, now, documents, files, started>>

\* process_all_queued has returned its counts
PAQReturn(p) ==
    /\ procs[p].pc = "done"
    /\ procs' = [procs EXCEPT ![p] = IdleProc]
    /\ UNCHANGED <<indexVars, call, ragVars, now, documents, files, started>>

InitProc ==
    /\ collections = [n \in CollectionNames |-> NoCollection]
    /\ nextPointId = 1
    /\ call = NoCall
    /\ cache = {}
    /\ now = 0
    /\ queries = <<>>
    /\ generated = {}
    /\ degraded = {}
    /\ lastWrite = {}
    /\ documents = [d \in DocIds |-> NoDocument]
    /\ files = [d \in DocIds |-> <<>>]
    /\ procs = [p \in ProcIds |-> IdleProc]
    /\ started = 0

NextProc ==
    \/ \E p \in ProcIds, t \in Tenants, text \in FileTexts : UploadDocument(p, t, text)
    \/ \E p \in ProcIds, d \in DocIds : ReprocessDocument(p, d)
    \/ \E p \in ProcIds : ProcessAllQueued(p)
    \/ \E p \in ProcIds : PDFetch(p)
    \/ \E p \in ProcIds : PDMark(p)
    \/ \E p \in ProcIds : PDExtract(p)
    \/ \E p \in ProcIds : PDChunk(p)
    \/ \E p \in ProcIds : PDEmbed(p)
    \/ \E p \in ProcIds : PDEnsure(p)
    \/ \E p \in ProcIds : PDCreate(p)
    \/ \E p \in ProcIds : PDUpsert(p)
    \/ \E p \in ProcIds : PDReady(p)
    \/ \E p \in ProcIds : PDFail(p)
    \/ \E p \in ProcIds : ProcReturn(p)
    \/ \E p \in ProcIds : RPDeleteVectors(p)
    \/ \E p \in ProcIds : RPReset(p)
    \/ \E p \in ProcIds : PAQTally(p)
    \/ \E p \in ProcIds : PAQReturn(p)

SpecProc == InitProc /\ [][NextProc]_vars

(***************************************************************************)
(* process_all_queued as recovery: documents left queued by uploads whose  *)
(* inline processing never ran, a batch run beside reprocess runs.         *)
(***************************************************************************)
\* the files of the queued documents: one that cannot be processed, one that can
BatchFileTexts == {<<" ", "\n">>, <<"a", "b", "c">>}

InitBatch ==
    /\ collections = [n \in CollectionNames |-> NoCollection]
    /\ nextPointId = 1
    /\ call = NoCall
    /\ cache = {}
    /\ now = 0
    /\ queries = <<>>
    /\ generated = {}
    /\ degraded = {}
    /\ lastWrite = {}
    /\ documents = [d \in DocIds |-> NewDocument("tA")]
    /\ files \in [DocIds -> BatchFileTexts]
    /\ procs = [p \in ProcIds |-> IdleProc]
    /\ started = 0

NextBatch ==
    \/ \E p \in ProcIds : ProcessAllQueued(p)
    \/ \E p \in ProcIds, d \in DocIds : ReprocessDocument(p, d)
    \/ \E p \in ProcIds : PDFetch(p)
    \/ \E p \in ProcIds : PDMark(p)
    \/ \E p \in ProcIds : PDExtract(p)
    \/ \E p \in ProcIds : PDChunk(p)
    \/ \E p \in ProcIds : PDEmbed(p)
    \/ \E p \in ProcIds : PDEnsure(p)
    \/ \E p \in ProcIds : PDCreate(p)
    \/ \E p \in ProcIds : PDUpsert(p)
    \/ \E p \in ProcIds : PDReady(p)
    \/ \E p \in ProcIds : PDFail(p)
    \/ \E p \in ProcIds : ProcReturn(p)
    \/ \E p \in ProcIds : RPDeleteVectors(p)
    \/ \E p \in ProcIds : RPReset(p)
    \/ \E p \in ProcIds : PAQTally(p)
    \/ \E p \in ProcIds : PAQReturn(p)

SpecBatch == InitBatch /\ [][NextBatch]_vars

(***************************************************************************)
(* SpecRecover: uploads whose inline run may be interrupted (the request   *)
(* is cancelled or its worker stops: nothing in upload_document or         *)
(* process_document handles either), with process_all_queued run again and *)
(* again as the recovery job.  Every collaborator call returns or raises,  *)
(* every run that is not interrupted keeps taking its steps, and the       *)
(* recovery job is always started again.                                   *)
(***************************************************************************)
\* the positions of a process_document run
PipelinePcs ==
    {"pd_fetch", "pd_mark", "pd_extract", "pd_chunk", "pd_embed", "pd_ensure",
     "pd_create", "pd_upsert", "pd_ready", "pd_fail"}

\* the inline run of an upload stops where it is: the row keeps the status
\* last committed
UploadInterrupted(p) ==
    /\ procs[p].op = "upload"
    /\ procs[p].pc \in PipelinePcs
    /\ procs' = [procs EXCEPT ![p] = IdleProc]
    /\ UNCHANGED <<indexVars, call, ragVars, now, documents, files, started>>

\* process_all_queued started by the recovery job: select the queued
\* documents, start the loop
ProcessAllQueuedRecovery(p) ==
    /\ procs[p].pc = "idle"
    /\ \A p2 \in ProcIds : procs[p2].pc = "idle" => p2 >= p
    /\ \E queue \in Orderings({d \in DocIds : documents[d].exists
                                              /\ documents[d].status = "queued"}) :
          IF queue = <<>>
          THEN procs' = [procs EXCEPT ![p] =
                  [IdleProc EXCEPT !.op = "batch", !.pc = "done"]]
          ELSE procs' = [procs EXCEPT ![p] =
                  EnterProcessDocument(
                      [IdleProc EXCEPT !.op = "batch", !.queue = queue,
                                       !.selected = queue], queue[1])]
    /\ UNCHANGED <<indexVars, call, ragVars, now, documents, files, started>>

\* the steps of the run in slot p
RunStep(p) ==
    \/ PDFetch(p) \/ PDMark(p) \/ PDExtract(p) \/ PDChunk(p) \/ PDEmbed(p)
    \/ PDEnsure(p) \/ PDCreate(p) \/ PDUpsert(p) \/ PDReady(p) \/ PDFail(p)
    \/ ProcReturn(p) \/ PAQTally(p) \/ PAQReturn(p)

\* the tenant that uploads, and the file uploaded: less than one chunk
RecoverTenants == {"tA"}
RecoverFileTexts == {<<"a", "b", "c">>}

RecoveryJob == \E p \in ProcIds : ProcessAllQueuedRecovery(p)

NextRecover ==
    \/ \E p \in ProcIds, t \in RecoverTenants, text \in RecoverFileTexts :
          UploadDocument(p, t, text)
    \/ \E p \in ProcIds : UploadInterrupted(p)
    \/ RecoveryJob
    \/ \E p \in ProcIds : RunStep(p)

SpecRecover ==
    /\ InitProc
    /\ [][NextRecover]_vars
    /\ \A p \in ProcIds : WF_vars(RunStep(p))
    /\ WF_vars(RecoveryJob)

(***************************************************************************)
(* SpecExtract: extract_text called on its own, and process_all_queued     *)
(* over one queued document whose file_path is any of the paths tried.     *)
(***************************************************************************)
ExtractPaths ==
    {<<"a", ".", "p", "d", "f">>,
     <<"a", ".", "b", ".", "T", "x", "T">>,
     <<"a", ".", "d", "o", "c", "x">>,
     <<"T", "X", "T">>,
     <<"a">>,
     <<"a", ".", "p", "d", "f", ".", "x">>,
     <<"a", ".">>}

\* extract_text(file_path)
ExtractTextCall(file_path) ==
    /\ call' = [op |-> "extract_text", file_path |-> file_path,
                outcome |-> ExtractText(file_path)]
    /\ UNCHANGED <<indexVars, ragVars, procVars, now>>

InitExtract ==
    /\ collections = [n \in CollectionNames |-> NoCollection]
    /\ nextPointId = 1
    /\ call = NoCall
    /\ cache = {}
    /\ now = 0
    /\ queries = <<>>
    /\ generated = {}
    /\ degraded = {}
    /\ lastWrite = {}
    /\ \E path \in ExtractPaths :
          documents = [d \in DocIds |->
                          IF d = "d1"
                          THEN [NewDocument("tA") EXCEPT !.file_path = path]
                          ELSE NoDocument]
    /\ files = [d \in DocIds |-> <<"a", "b", "c">>]
    /\ procs = [p \in ProcIds |-> IdleProc]
    /\ started = 0

NextExtract ==
    \/ \E path \in ExtractPaths : ExtractTextCall(path)
    \/ \E p \in ProcIds : ProcessAllQueued(p)
    \/ \E p \in ProcIds : PDFetch(p)
    \/ \E p \in ProcIds : PDMark(p)
    \/ \E p \in ProcIds : PDExtract(p)
    \/ \E p \in ProcIds : PDChunk(p)
    \/ \E p \in ProcIds : PDEmbed(p)
    \/ \E p \in ProcIds : PDEnsure(p)
    \/ \E p \in ProcIds : PDCreate(p)
    \/ \E p \in ProcIds : PDUpsert(p)
    \/ \E p \in ProcIds : PDReady(p)
    \/ \E p \in ProcIds : PDFail(p)
    \/ \E p \in ProcIds : PAQTally(p)
    \/ \E p \in ProcIds : PAQReturn(p)

SpecExtract == InitExtract /\ [][NextExtract]_vars

(***************************************************************************)
(* delete_document (documents.py), run beside uploads.                     *)
(***************************************************************************)
\* no file is stored under the document's path
NoFile == <<>>

NotFoundError == Message("Document not found", 18)

\* delete_document: select the document by id and the user's organization;
\* 404 when there is none
DeleteDocument(p, u, d) ==
    /\ CanStart(p)
    /\ IF documents[d].exists /\ documents[d].tenant_id = OrganizationId(u)
       THEN procs' = [procs EXCEPT ![p] =
               [IdleProc EXCEPT !.op = "delete", !.pc = "del_vectors",
                                !.document_id = d,
                                !.tenant_id = documents[d].tenant_id]]
       ELSE procs' = [procs EXCEPT ![p] =
               [IdleProc EXCEPT !.op = "delete", !.pc = "del_return",
                                !.document_id = d, !.tenant_id = OrganizationId(u),
                                !.error = NotFoundError, !.raised = TRUE]]
    /\ started' = started + 1
    /\ UNCHANGED <<indexVars, call, ragVars, now, documents, files>>

DelVectorsIgnoresError(p) ==
    LET f == procs[p] IN
    /\ f.pc = "del_vectors"
    /\ procs' = [procs EXCEPT ![p].pc = "del_file",
                              ![p].log = Logged(f, "vectors", FALSE)]
    /\ UNCHANGED <<indexVars, call, ragVars, now, documents, files, started>>

\* delete_document: delete_document_vectors(tenant_id, document_id), which
\* may raise
DelVectors(p) ==
    LET f == procs[p] IN
    /\ f.pc = "del_vectors"
    /\ \/ /\ \E e \in CollaboratorErrors :
               procs' = [procs EXCEPT ![p].pc = "del_return", ![p].error = e,
                                      ![p].raised = TRUE,
                                      ![p].log = Logged(f, "vectors", FALSE)]
          /\ UNCHANGED collections
       \/ /\ collections' =
                DeleteDocumentVectors(collections, f.tenant_id, f.document_id)
          /\ procs' = Interfere(
                          [procs EXCEPT ![p].pc = "del_file",
                                        ![p].log = Logged(f, "vectors", TRUE)],
                          p, f.document_id)
    /\ UNCHANGED <<nextPointId, call, ragVars, now, documents, files, started>>

\* delete_document: delete_file(document.file_path): remove the document's
\* directory when the file exists; shutil.rmtree may raise
DelFile(p) ==
    LET f == procs[p] IN
    /\ f.pc = "del_file"
    /\ \/ /\ files[f.document_id] # NoFile
          /\ \E e \in CollaboratorErrors :
               procs' = [procs EXCEPT ![p].pc = "del_return", ![p].error = e,
                                      ![p].raised = TRUE,
                                      ![p].log = Logged(f, "file", FALSE)]
          /\ UNCHANGED files
       \/ /\ files' = [files EXCEPT ![f.document_id] = NoFile]
          /\ procs' = [procs EXCEPT ![p].pc = "del_record",
                                    ![p].log = Logged(f, "file", TRUE)]
    /\ UNCHANGED <<indexVars, call, ragVars, now, documents, started>>

\* delete_document: await db.delete(document); await db.commit()
DelRecord(p) ==
    LET f == procs[p] IN
    /\ f.pc = "del_record"
    /\ documents' = [documents EXCEPT ![f.document_id] = NoDocument]
    /\ procs' = [procs EXCEPT ![p].pc = "del_return", ![p].ret = TRUE,
                              ![p].log = Logged(f, "record", TRUE)]
    /\ UNCHANGED <<indexVars, call, ragVars, now, files, started>>

\* the endpoint has answered 204, or the error it raised
DelReturn(p) ==
    /\ procs[p].pc = "del_return"
    /\ procs' = [procs EXCEPT ![p] = IdleProc]
    /\ UNCHANGED <<indexVars, call, ragVars, now, documents, files, started>>

\* the files uploaded beside the deletions
DeleteFileTexts == {<<"a", "b", "c">>}

NextDelete ==
    \/ \E p \in ProcIds, t \in Tenants, text \in DeleteFileTexts :
          UploadDocument(p, t, text)
    \/ \E p \in ProcIds, u \in Users, d \in DocIds : DeleteDocument(p, u, d)
    \/ \E p \in ProcIds : PDFetch(p)
    \/ \E p \in ProcIds : PDMark(p)
    \/ \E p \in ProcIds : PDExtract(p)
    \/ \E p \in ProcIds : PDChunk(p)
    \/ \E p \in ProcIds : PDEmbed(p)
    \/ \E p \in ProcIds : PDEnsure(p)
    \/ \E p \in ProcIds : PDCreate(p)
    \/ \E p \in ProcIds : PDUpsert(p)
    \/ \E p \in ProcIds : PDReady(p)
    \/ \E p \in ProcIds : PDFail(p)
    \/ \E p \in ProcIds : ProcReturn(p)
    \/ \E p \in ProcIds : DelVectors(p)
    \/ \E p \in ProcIds : DelFile(p)
    \/ \E p \in ProcIds : DelRecord(p)
    \/ \E p \in ProcIds : DelReturn(p)

SpecDelete == InitProc /\ [][NextDelete]_vars

(***************************************************************************)
(* SpecDeleteQuery: delete_document beside the query pipeline.  Tenant tA  *)
(* has its two documents processed and indexed; its users query them and   *)
(* delete one while the clock advances.                                    *)
(***************************************************************************)
\* the row of a seeded document after its processing: ready, one chunk per
\* stored chunk, processed at time 0
SeededDocument(i) ==
    [NewDocument(SeedStores[i].tenant) EXCEPT
        !.status = "ready",
        !.chunks_count = Len(SeedStores[i].chunks),
        !.processed_at = 0]

SeedOf(d) == CHOOSE i \in 1..Len(SeedStores) : SeedStores[i].document = d

\* the stored file of a seeded document: the text its chunks were cut from
SeededFile(i) ==
    LET c == SeedStores[i].chunks
        cat[k \in 0..Len(c)] == IF k = 0 THEN <<>> ELSE cat[k - 1] \o c[k]
    IN cat[Len(c)]

\* delete_document for a document the user's organization has: the select
\* finds the row (the 404 branch is taken in SpecDelete)
DeleteDocumentFound(p, u, d) ==
    /\ procs[p].pc = "idle"
    /\ \A p2 \in ProcIds : procs[p2].pc = "idle" => p2 >= p
    /\ documents[d].exists
    /\ documents[d].tenant_id = OrganizationId(u)
    /\ procs' = [procs EXCEPT ![p] =
          [IdleProc EXCEPT !.op = "delete", !.pc = "del_vectors",
                           !.document_id = d,
                           !.tenant_id = documents[d].tenant_id]]
    /\ UNCHANGED <<indexVars, call, ragVars, now, documents, files, started>>

InitDeleteQuery ==
    /\ collections = SeededIndex(1..Len(SeedStores)).colls
    /\ nextPointId = SeededIndex(1..Len(SeedStores)).next
    /\ call = NoCall
    /\ cache = {}
    /\ now = 0
    /\ queries = [r \in QueryIds |-> IdleQuery]
    /\ generated = {}
    /\ degraded = {}
    /\ lastWrite = {}
    /\ documents = [d \in DocIds |-> SeededDocument(SeedOf(d))]
    /\ files = [d \in DocIds |-> SeededFile(SeedOf(d))]
    /\ procs = [p \in ProcIds |-> IdleProc]
    /\ started = 0

\* the question asked beside the deletions, over all the tenant's documents
DeleteQueryQuestions == {"q1"}
DeleteQueryDocIdLists == {<<>>}
\* the document deleted beside the queries
DeleteQueryDocIds == {"d1"}

NextDeleteQuery ==
    \/ \E r \in QueryIds, u \in Users, q \in DeleteQueryQuestions,
          D \in DeleteQueryDocIdLists :
          QueryStart(r, u, q, D)
    \/ \E r \in QueryIds : QueryLookup(r)
    \/ \E r \in QueryIds : QuerySearch(r)
    \/ \E r \in QueryIds : QueryGenerate(r)
    \/ \E r \in QueryIds : QueryStore(r)
    \/ \E r \in QueryIds : QueryReturn(r)
    \/ \E p \in ProcIds, u \in Users, d \in DeleteQueryDocIds :
          DeleteDocumentFound(p, u, d)
    \/ \E p \in ProcIds : DelVectors(p)
    \/ \E p \in ProcIds : DelFile(p)
    \/ \E p \in ProcIds : DelRecord(p)
    \/ \E p \in ProcIds : DelReturn(p)
    \/ Tick

SpecDeleteQuery == InitDeleteQuery /\ [][NextDeleteQuery]_vars

(***************************************************************************)
(* Rate limiter (multi_tenant.py) and the endpoints that call it.          *)
(* SpecRate: concurrent requests of the two tenants while the clock        *)
(* advances.  `queries` holds the frames of the requests, `cache` the      *)
(* Redis counters, `generated` the history of the INCR results and         *)
(* `degraded` the history of the responses.                                *)
(***************************************************************************)
\* Maximum API requests per tenant per hour
RATE_LIMIT_PER_HOUR == 100

\* client.expire(key, 3600)
RateLimitTTL == 3600

\* seconds in the hour that strftime("%Y%m%d%H") names
HourSeconds == 3600

\* datetime.utcnow().strftime("%Y%m%d%H"): the hour the time lies in
CurrentHour(time) == time \div HourSeconds

\* f"ratelimit:{tenant_id}:{current_hour}"
RateLimitKey(tenant_id, time) == <<"ratelimit", tenant_id, CurrentHour(time)>>

\* the expiry of a key that has no ttl: later than the clock ever is
NoExpiry == (MaxTicks + 1) * TickStep

\* the value client.incr(key) returns: 1 for a key that does not exist
RedisIncrResult(c, key, time) ==
    IF RedisGet(c, key, time) = {} THEN 1
    ELSE (CHOOSE e \in RedisGet(c, key, time) : TRUE).value + 1

\* client.incr(key): the key is created without ttl, an existing key keeps
\* the ttl it has
RedisIncr(c, key, time) ==
    IF RedisGet(c, key, time) = {}
    THEN {e \in c : e.key # key}
            \cup {[key |-> key, value |-> 1, expires |-> NoExpiry]}
    ELSE {IF e.key = key THEN [e EXCEPT !.value = @ + 1] ELSE e : e \in c}

\* client.expire(key, ttl)
RedisExpire(c, key, ttl, time) ==
    {IF e.key = key /\ time < e.expires
     THEN [e EXCEPT !.expires = time + ttl] ELSE e : e \in c}

\* the dict check_rate_limit returns for the count it has read
RateLimitResult(current_count) ==
    [allowed |-> current_count <= RATE_LIMIT_PER_HOUR,
     current |-> current_count,
     limit |-> RATE_LIMIT_PER_HOUR,
     remaining |-> IF RATE_LIMIT_PER_HOUR - current_count > 0
                   THEN RATE_LIMIT_PER_HOUR - current_count ELSE 0]

\* the dict get_rate_limit_status returns: int(value) of the key, 0 without
GetRateLimitStatus(c, key, time) ==
    LET current_count == IF RedisGet(c, key, time) = {} THEN 0
                         ELSE (CHOOSE e \in RedisGet(c, key, time) : TRUE).value
    IN [current_requests_this_hour |-> current_count,
        limit_per_hour |-> RATE_LIMIT_PER_HOUR,
        remaining |-> IF RATE_LIMIT_PER_HOUR - current_count > 0
                      THEN RATE_LIMIT_PER_HOUR - current_count ELSE 0]

\* requests received in one behaviour
MaxRateCalls == 3

\* the requests a tenant has made in the first hour before the behaviour
\* starts: none, or one less than the limit
SeedCounts == {0, RATE_LIMIT_PER_HOUR - 1}

NoRate == [allowed |-> FALSE, current |-> 0, limit |-> 0, remaining |-> 0]
NoUsage == [current_requests_this_hour |-> 0, limit_per_hour |-> 0, remaining |-> 0]

HTTP_200_OK == 200
HTTP_429_TOO_MANY_REQUESTS == 429

IdleRequest ==
    [pc |-> "idle", op |-> "none", n |-> 0, tenant_id |-> "tA",
     key |-> RateLimitKey("tA", 0), current_count |-> 0, rate |-> NoRate,
     usage |-> NoUsage, status_code |-> 0, invoked |-> FALSE]

\* POST /query by user u, question of valid length: check_rate_limit is
\* entered and names its key by the hour of the clock
QueryRequest(r, u) ==
    /\ queries[r].pc = "idle"
    /\ \A r2 \in QueryIds : queries[r2].pc = "idle" => r2 >= r
    /\ started < MaxRateCalls
    /\ started' = started + 1
    /\ queries' = [queries EXCEPT ![r] =
          [IdleRequest EXCEPT !.pc = "incr", !.op = "query", !.n = started + 1,
                              !.tenant_id = OrganizationId(u),
                              !.key = RateLimitKey(OrganizationId(u), now)]]
    /\ UNCHANGED <<indexVars, call, cache, now, generated, degraded, lastWrite,
                   documents, files, procs>>

\* the usage endpoint for user u: get_rate_limit_status is entered
UsageRequest(r, u) ==
    /\ queries[r].pc = "idle"
    /\ \A r2 \in QueryIds : queries[r2].pc = "idle" => r2 >= r
    /\ started < MaxRateCalls
    /\ started' = started + 1
    /\ queries' = [queries EXCEPT ![r] =
          [IdleRequest EXCEPT !.pc = "get", !.op = "status", !.n = started + 1,
                              !.tenant_id = OrganizationId(u),
                              !.key = RateLimitKey(OrganizationId(u), now)]]
    /\ UNCHANGED <<indexVars, call, cache, now, generated, degraded, lastWrite,
                   documents, files, procs>>

\* current_count = await client.incr(key)
CheckRateLimitIncr(r) ==
    LET f == queries[r]
        current_count == RedisIncrResult(cache, f.key, now)
    IN
    /\ f.pc = "incr"
    /\ cache' = RedisIncr(cache, f.key, now)
    /\ queries' = [queries EXCEPT
          ![r].current_count = current_count,
          ![r].pc = IF current_count = 1 THEN "expire" ELSE "respond"]
    /\ generated' = generated \cup
          {[n |-> f.n, key |-> f.key, count |-> current_count,
            seq |-> Cardinality(generated) + 1]}
    /\ UNCHANGED <<indexVars, call, now, degraded, lastWrite, procVars>>

\* if current_count == 1: await client.expire(key, 3600)
CheckRateLimitExpire(r) ==
    LET f == queries[r] IN
    /\ f.pc = "expire"
    /\ cache' = RedisExpire(cache, f.key, RateLimitTTL, now)
    /\ queries' = [queries EXCEPT ![r].pc = "respond"]
    /\ UNCHANGED <<indexVars, call, now, generated, degraded, lastWrite, procVars>>

\* check_rate_limit returns its dict; the endpoint raises 429 when allowed
\* is false and calls query_documents otherwise
QueryRespond(r) ==
    LET f == queries[r]
        rate == RateLimitResult(f.current_count)
        g == [f EXCEPT !.pc = "done", !.rate = rate,
                       !.status_code = IF rate.allowed THEN HTTP_200_OK
                                       ELSE HTTP_429_TOO_MANY_REQUESTS,
                       !.invoked = rate.allowed]
    IN
    /\ f.pc = "respond"
    /\ queries' = [queries EXCEPT ![r] = g]
    /\ degraded' = degraded \cup
          {[n |-> g.n, rate |-> g.rate, status_code |-> g.status_code,
            invoked |-> g.invoked]}
    /\ UNCHANGED <<indexVars, call, cache, now, generated, lastWrite, procVars>>

\* get_rate_limit_status: current_count = await client.get(key)
UsageGet(r) ==
    LET f == queries[r] IN
    /\ f.pc = "get"
    /\ queries' = [queries EXCEPT
          ![r].pc = "done", ![r].status_code = HTTP_200_OK,
          ![r].usage = GetRateLimitStatus(cache, f.key, now)]
    /\ UNCHANGED <<indexVars, call, cache, now, generated, degraded, lastWrite,
                   procVars>>

\* the response has been sent
RequestReturn(r) ==
    /\ queries[r].pc = "done"
    /\ queries' = [queries EXCEPT ![r] = IdleRequest]
    /\ UNCHANGED <<indexVars, call, cache, now, generated, degraded, lastWrite,
                   procVars>>

\* the counters at the start: tenant tA has made some requests at time 0
SeededCounters(count) ==
    IF count = 0 THEN {}
    ELSE {[key |-> RateLimitKey("tA", 0), value |-> count,
           expires |-> RateLimitTTL]}

InitRate ==
    /\ collections = [n \in CollectionNames |-> NoCollection]
    /\ nextPointId = 1
    /\ call = NoCall
    /\ \E count \in SeedCounts : cache = SeededCounters(count)
    /\ now = 0
    /\ queries = [r \in QueryIds |-> IdleRequest]
    /\ generated = {}
    /\ degraded = {}
    /\ lastWrite = {}
    /\ documents = <<>>
    /\ files = <<>>
    /\ procs = <<>>
    /\ started = 0

NextRate ==
    \/ \E r \in QueryIds, u \in Users : QueryRequest(r, u)
    \/ \E r \in QueryIds, u \in Users : UsageRequest(r, u)
    \/ \E r \in QueryIds : CheckRateLimitIncr(r)
    \/ \E r \in QueryIds : CheckRateLimitExpire(r)
    \/ \E r \in QueryIds : QueryRespond(r)
    \/ \E r \in QueryIds : UsageGet(r)
    \/ \E r \in QueryIds : RequestReturn(r)
    \/ Tick

SpecRate == InitRate /\ [][NextRate]_vars

(***************************************************************************)
(* Claims about query_documents, checked under SpecRag.                    *)
(***************************************************************************)
QueryKey(f) == GetCacheKey(f.tenant_id, f.question)

\* the step taken is a step of run r that leaves position pc
QueryStepFrom(r, pc) == queries[r].pc = pc /\ queries'[r] # queries[r]

\* C1.  On a cache hit (the cache holds an unexpired payload for the run's
\* (tenant_id, question)) query_documents returns the stored answer and
\* sources with cached = true, without raising, and has invoked none of
\* generate_embedding, search_similar, generate_answer, cache_answer; the
\* cache is left as it was.
C1_CacheHitShortCircuits ==
    [][\A r \in QueryIds :
        LET f == queries[r]
            held == {e \in cache : e.key = QueryKey(f) /\ now < e.expires}
        IN (QueryStepFrom(r, "lookup") /\ held # {}) =>
              /\ queries'[r].pc = "done"
              /\ ~queries'[r].raised
              /\ \E e \in held :
                    queries'[r].response =
                        [answer |-> e.value.json.answer,
                         sources |-> e.value.json.sources,
                         cached |-> TRUE]
              /\ queries'[r].calls = {"get_cached_answer"}
              /\ cache' = cache]_vars

C1_Witness ==
    \E r \in QueryIds :
        /\ queries[r].pc = "done"
        /\ queries[r].response.cached
        /\ queries[r].response.sources # <<>>
        /\ queries[r].calls = {"get_cached_answer"}

\* C2.  When generate_answer raises on a cache miss with non-empty search
\* results, query_documents does not raise: its answer is the fixed prefix
\* followed by every search result rendered "[i] text", i = 1..n in result
\* order, its sources are the search results and cached is false.
C2_GeneratorFailureDegrades ==
    \A r \in QueryIds :
        LET f == queries[r] IN
        (f.llm_failed /\ f.pc # "generate") =>
            /\ f.pc = "done"
            /\ ~f.raised
            /\ f.results # <<>>
            /\ Len(f.response.answer) = Len(f.results) + 1
            /\ f.response.answer[1] = FallbackPrefix
            /\ \A i \in 1..Len(f.results) :
                  f.response.answer[i + 1] = [marker |-> i, text |-> f.results[i].text]
            /\ f.response.sources = f.results
            /\ f.response.cached = FALSE

C2_Witness ==
    \E r \in QueryIds :
        /\ queries[r].pc = "done"
        /\ queries[r].llm_failed
        /\ Len(queries[r].results) >= 2

\* C3.  Every entry of the query cache holds an answer that a successful
\* generate_answer call returned, never the degraded fallback and never the
\* no-documents message; a run that answered in degraded form or with the
\* no-documents message has not written the cache; and a query for a pair
\* that was answered in degraded form before is either served a generated
\* answer from the cache or runs the pipeline and, having found chunks,
\* invokes the generator again.
C3_CacheHoldsOnlyGeneratedAnswers ==
    /\ \A e \in cache :
          /\ e.value.json.answer \in generated
          /\ e.value.json.answer # NoDocumentsAnswer
          /\ e.value.json.answer[1] # FallbackPrefix
          /\ e.value.json.sources # <<>>
    /\ \A r \in QueryIds :
          LET f == queries[r] IN
          /\ (f.pc = "done" /\ (f.llm_failed \/ f.response.answer = NoDocumentsAnswer))
                => "cache_answer" \notin f.calls
          /\ (f.pc = "done" /\ f.after_degraded) =>
                IF f.response.cached
                THEN f.response.answer \in generated
                ELSE f.response.sources # <<>> => "generate_answer" \in f.calls

C3_Witness ==
    \E r \in QueryIds :
        /\ queries[r].pc = "done"
        /\ queries[r].after_degraded
        /\ ~queries[r].llm_failed
        /\ "generate_answer" \in queries[r].calls
        /\ QueryKey(queries[r]) \in degraded

\* C4.  When the vector search returns no chunks on a cache miss,
\* query_documents returns the fixed no-documents answer with empty sources
\* and cached = false, has not called generate_answer, and has not written
\* the cache.
C4_EmptySearchReturnsNoDocuments ==
    [][\A r \in QueryIds :
        (QueryStepFrom(r, "search") /\ queries'[r].results = <<>>) =>
            /\ queries'[r].pc = "done"
            /\ ~queries'[r].raised
            /\ queries'[r].response =
                  [answer |-> NoDocumentsAnswer, sources |-> <<>>, cached |-> FALSE]
            /\ "generate_answer" \notin queries'[r].calls
            /\ "cache_answer" \notin queries'[r].calls
            /\ cache' = cache]_vars

C4_Witness ==
    \E r \in QueryIds :
        /\ queries[r].pc = "done"
        /\ "search_similar" \in queries[r].calls
        /\ queries[r].response.answer = NoDocumentsAnswer

\* C5.  On a cache miss with search results and a successful generation,
\* query_documents stores {answer, sources, cached: false} under
\* (tenant_id, question) with the ttl and returns it; a later query for the
\* same pair, looked up before the ttl of the latest such store has elapsed,
\* returns that answer and those sources with cached = true.
C5_StoredAnswerServedUntilTTL ==
    [][\A r \in QueryIds :
        LET f == queries[r] IN
        /\ QueryStepFrom(r, "store") =>
              /\ queries'[r].pc = "done"
              /\ queries'[r].response =
                    [answer |-> f.answer, sources |-> f.results, cached |-> FALSE]
              /\ f.answer \in generated
              /\ {e \in cache' : e.key = QueryKey(f)} =
                    {[key |-> QueryKey(f),
                      value |-> JsonDumps(queries'[r].response),
                      expires |-> now + DefaultTTL]}
        /\ \A w \in lastWrite :
              (QueryStepFrom(r, "lookup") /\ w.key = QueryKey(f)
                 /\ now < w.at + DefaultTTL) =>
                  /\ queries'[r].pc = "done"
                  /\ queries'[r].response =
                        [answer |-> w.response.answer,
                         sources |-> w.response.sources,
                         cached |-> TRUE]]_vars

C5_Witness ==
    \E r \in QueryIds : \E w \in lastWrite :
        /\ queries[r].pc = "done"
        /\ queries[r].response.cached
        /\ w.key = QueryKey(queries[r])
        /\ queries[r].response.answer = w.response.answer
        /\ w.at < now
        /\ now < w.at + DefaultTTL

(***************************************************************************)
(* Claims about the document processor, checked under SpecProc.            *)
(***************************************************************************)
\* process p takes a step out of the control point pc
ProcStepFrom(p, pc) == procs[p].pc = pc /\ procs'[p].pc # pc

\* the points stored for document d, in any collection
PointsOfDocument(d) ==
    UNION {{p \in collections[n].points : p.document_id = d} : n \in CollectionNames}

\* C6. Whatever the interleaving of upload, process_document,
\* reprocess_document and process_all_queued, the status of a document
\* changes only from queued to processing, from processing to ready, from
\* processing to failed, or to queued by the reset of reprocess_document.
C6_StatusLifecycle ==
    [][\A d \in DocIds :
          (/\ documents[d].exists
           /\ documents'[d].exists
           /\ documents'[d].status # documents[d].status)
          => \/ <<documents[d].status, documents'[d].status>> \in
                   {<<"queued", "processing">>, <<"processing", "ready">>,
                    <<"processing", "failed">>}
             \/ /\ documents'[d].status = "queued"
                /\ \E p \in ProcIds : /\ ProcStepFrom(p, "rp_reset")
                                      /\ procs[p].document_id = d]_vars

\* C7. When a stage of process_document has raised, the handler leaves the
\* document failed with a non-empty error_message of at most 1000
\* characters and processed_at set, and the call returns False.
C7_FailureRecorded ==
    [][\A p \in ProcIds :
          ProcStepFrom(p, "pd_fail")
          => LET row == documents'[procs[p].document_id] IN
             /\ row.status = "failed"
             /\ row.error_message.len >= 1
             /\ row.error_message.len <= ErrorMessageCap
             /\ row.processed_at # NoTime
             /\ procs'[p].pc = "pd_return"
             /\ procs'[p].ret = FALSE]_vars

\* C8. When every stage of process_document has succeeded, the call returns
\* True and leaves the document ready with chunks_count equal to the number
\* of points upserted, processed_at set and error_message null, whether or
\* not the row carried an error_message before.
C8_SuccessRecorded ==
    [][\A p \in ProcIds :
          ProcStepFrom(p, "pd_ready")
          => LET row == documents'[procs[p].document_id] IN
             /\ row.status = "ready"
             /\ row.chunks_count = Cardinality(procs[p].upserted)
             /\ row.chunks_count >= 1
             /\ row.processed_at # NoTime
             /\ row.error_message = NoMessage
             /\ procs'[p].pc = "pd_return"
             /\ procs'[p].ret = TRUE]_vars

\* a run has returned True for a document whose row carried the error_message
\* of a failed run
C8_Witness ==
    \E p \in ProcIds :
        /\ procs[p].pc = "pd_return"
        /\ procs[p].ret
        /\ procs[p].had_error
        /\ Cardinality(procs[p].upserted) = 2
        /\ documents[procs[p].document_id].status = "ready"
        /\ documents[procs[p].document_id].error_message = NoMessage

StepOrder == <<"processing", "extract", "chunk", "embed", "upsert", "ready">>

\* C9. Within one run of process_document the steps happen in the order
\* processing, extract, chunk, embed, upsert, final status; only the last
\* stage entered can have failed, what follows a failed stage is the failed
\* status and nothing else, and ready is written only after all of the
\* stages, the upsert included, have succeeded.
C9_StepsInOrder ==
    \A p \in ProcIds :
        LET log == procs[p].log IN
        \A i \in 1..Len(log) :
            /\ i <= Len(StepOrder)
            /\ IF log[i].step = "failed"
               THEN i = Len(log) /\ i > 1 /\ ~log[i - 1].ok
               ELSE log[i].step = StepOrder[i]
            /\ (i < Len(log) /\ ~log[i].ok) => log[i + 1].step = "failed"
            /\ log[i].step = "ready" => procs[p].upserted # {}

\* a run has gone through all of the steps and written ready
C9_Witness ==
    \E p \in ProcIds :
        /\ Len(procs[p].log) = Len(StepOrder)
        /\ procs[p].log[Len(StepOrder)] = [step |-> "ready", ok |-> TRUE]
        /\ documents[procs[p].document_id].status = "ready"

(***************************************************************************)
(* Claims about tenant isolation, checked under SpecTenants.               *)
(***************************************************************************)
\* the points of tenant t's collection
PointsOfTenant(t) == collections[GetCollectionName(t)].points

\* source s is a chunk upserted for a document of tenant t, and for no other
\* tenant's document
SourceOfTenant(s, t) ==
    /\ TenantOfDocument(s.document_id) = t
    /\ \E p \in PointsOfTenant(t) :
          /\ p.document_id = s.document_id
          /\ p.chunk_index = s.chunk_index
          /\ p.text = s.text
    /\ \A t2 \in Tenants \ {t} :
          \A p \in PointsOfTenant(t2) : p.document_id # s.document_id

\* C11.  For two distinct tenants and any interleaving of uploads and
\* queries, whatever question and document_ids the caller supplies (ids of
\* the other tenant's documents included): the tenant id of a run is the
\* organization of its authenticated user; every source of a response is a
\* chunk upserted for a document of that tenant; a response served from the
\* cache was read under a key written by a user of that tenant; and the
\* collection names and the cache keys of distinct tenants differ.
C11_TenantIsolation ==
    /\ \A t1, t2 \in Tenants :
          t1 # t2 =>
             /\ GetCollectionName(t1) # GetCollectionName(t2)
             /\ \A q1, q2 \in Questions : GetCacheKey(t1, q1) # GetCacheKey(t2, q2)
    /\ \A r \in QueryIds :
          LET f == queries[r] IN
          f.pc # "idle" =>
             /\ f.tenant_id = OrganizationId(f.user)
             /\ \A i \in 1..Len(f.results) : SourceOfTenant(f.results[i], f.tenant_id)
             /\ \A i \in 1..Len(f.response.sources) :
                   SourceOfTenant(f.response.sources[i], f.tenant_id)
             /\ (f.pc = "done" /\ f.response.cached) =>
                   \E w \in lastWrite :
                      /\ OrganizationId(w.user) = f.tenant_id
                      /\ w.key = QueryKey(f)
    /\ \A e \in cache :
          \A i \in 1..Len(e.value.json.sources) :
             SourceOfTenant(e.value.json.sources[i], e.key[2])

\* a user of tA, with tB's document indexed and tB's answer to the same
\* question cached, has asked that question about tB's document
C11_Witness ==
    \E r \in QueryIds :
        /\ queries[r].pc = "done"
        /\ queries[r].tenant_id = "tA"
        /\ queries[r].document_ids = <<"d2">>
        /\ queries[r].response.answer = NoDocumentsAnswer
        /\ PointsOfTenant("tB") # {}
        /\ PointsOfTenant("tA") # {}
        /\ \E e \in cache : /\ e.key = GetCacheKey("tB", queries[r].question)
                            /\ e.value.json.sources # <<>>

\* C13.  reprocess_document first deletes the points of the document, then
\* commits status queued, chunks_count 0, processed_at and error_message
\* cleared, then runs process_document; when that run succeeds and no other
\* run has written or deleted points of the document meanwhile, the tenant's
\* collection holds for the document exactly the points of the new run.
C13_ReprocessReplacesPoints ==
    [][\A p \in ProcIds :
          LET f == procs[p]
              d == f.document_id
              held == {q \in collections'[GetCollectionName(f.tenant_id)].points :
                          q.document_id = d}
          IN
          /\ (ProcStepFrom(p, "rp_delete") /\ ~procs'[p].raised) =>
                /\ procs'[p].pc = "rp_reset"
                /\ held = {}
                /\ documents' = documents
          /\ ProcStepFrom(p, "rp_reset") =>
                /\ procs'[p].pc = "pd_fetch"
                /\ documents'[d] =
                      [documents[d] EXCEPT !.status = "queued", !.chunks_count = 0,
                                           !.processed_at = NoTime,
                                           !.error_message = NoMessage]
                /\ collections' = collections
          /\ (f.op = "reprocess" /\ ProcStepFrom(p, "pd_ready") /\ ~f.interfered) =>
                /\ procs'[p].ret
                /\ {q.id : q \in held} = f.upserted
                /\ Cardinality(held) = Len(f.chunks)
                /\ \A q \in held :
                      /\ q.chunk_index \in 0..(Len(f.chunks) - 1)
                      /\ q.text = f.chunks[q.chunk_index + 1]]_vars

\* a reprocess run that ran alone has succeeded on a document that had the
\* points of an earlier run
C13_Witness ==
    \E p \in ProcIds :
        LET f == procs[p] IN
        /\ f.op = "reprocess"
        /\ f.pc = "pd_return"
        /\ f.ret
        /\ ~f.interfered
        /\ documents[f.document_id].status = "ready"
        /\ nextPointId > 1 + Cardinality(f.upserted)
        /\ {q.id : q \in PointsOfDocument(f.document_id)} = f.upserted

\* C15.  In every interleaving of concurrent store_embeddings calls for one
\* tenant, no caller fails because another created the collection between its
\* existence check and its create: the create step of ensure_collection
\* always succeeds and leaves the collection in place.
C15_EnsureCollectionIdempotent ==
    [][\A p \in ProcIds :
          ProcStepFrom(p, "pd_create") =>
             /\ procs'[p].pc = "pd_upsert"
             /\ collections'[GetCollectionName(procs[p].tenant_id)].exists]_vars

(***************************************************************************)
(* Claims about process_all_queued, checked under SpecBatch.               *)
(***************************************************************************)
\* the step by which batch run p returns its counts
BatchFinishes(p) ==
    procs[p].op = "batch" /\ procs[p].pc # "done" /\ procs'[p].pc = "done"

\* the documents process_all_queued selects and the calls it makes: the
\* documents queued at its start, process_document once for each in the
\* order selected, the next one also after a failure, and counts with
\* processed + failed = total = the number selected
BatchProcessesEachOnce(p) ==
    LET f == procs[p] IN
    /\ (f.pc = "idle" /\ procs'[p].op = "batch") =>
          /\ Range(procs'[p].selected) =
                {d \in DocIds : documents[d].exists /\ documents[d].status = "queued"}
          /\ Len(procs'[p].selected) = Cardinality(Range(procs'[p].selected))
    /\ (procs'[p].op = "batch" /\ procs'[p].pc = "pd_fetch" /\ f.pc # "pd_fetch") =>
          /\ procs'[p].processed + procs'[p].failed < Len(procs'[p].selected)
          /\ procs'[p].document_id =
                procs'[p].selected[procs'[p].processed + procs'[p].failed + 1]
    /\ (f.op = "batch" /\ ProcStepFrom(p, "pd_return")) =>
          /\ procs'[p].processed + procs'[p].failed = f.processed + f.failed + 1
          /\ procs'[p].failed = f.failed + (IF f.ret THEN 0 ELSE 1)
    /\ BatchFinishes(p) =>
          /\ procs'[p].result.processed = procs'[p].processed
          /\ procs'[p].result.failed = procs'[p].failed
          /\ procs'[p].result.total = procs'[p].processed + procs'[p].failed
          /\ procs'[p].result.total = Len(procs'[p].selected)

\* C14 as stated: process_document runs once for each document queued at the
\* start, a failure does not stop the others, processed + failed = total =
\* the number of those documents, and at the return none of them is queued.
C14_NoneLeftQueued ==
    [][\A p \in ProcIds :
          /\ BatchProcessesEachOnce(p)
          /\ BatchFinishes(p) =>
                \A i \in 1..Len(procs'[p].selected) :
                   documents'[procs'[p].selected[i]].status # "queued"]_vars

\* C14, amended: as above, except that at the return a selected document is
\* queued only if a reprocess_document run has reset it after the batch
\* processed it and has not yet set it to processing.
C14_NoneLeftQueuedButReset ==
    [][\A p \in ProcIds :
          /\ BatchProcessesEachOnce(p)
          /\ BatchFinishes(p) =>
                \A i \in 1..Len(procs'[p].selected) :
                   LET d == procs'[p].selected[i] IN
                   documents'[d].status = "queued" =>
                      \E q \in ProcIds \ {p} :
                         /\ procs[q].op = "reprocess"
                         /\ procs[q].document_id = d
                         /\ procs[q].pc \in {"pd_fetch", "pd_mark"}]_vars

\* a batch has returned after a document that failed and a later one that
\* succeeded
C14_Witness ==
    \E p \in ProcIds :
        LET f == procs[p] IN
        /\ f.op = "batch"
        /\ f.pc = "done"
        /\ Len(f.selected) = 2
        /\ f.result = [processed |-> 1, failed |-> 1, total |-> 2]
        /\ documents[f.selected[1]].status = "failed"
        /\ documents[f.selected[2]].status = "ready"

(***************************************************************************)
(* Claims about delete_document, checked under SpecDelete.                 *)
(***************************************************************************)
\* C12.  delete_document removes the vector points of the document, then its
\* file, then its record: a record disappears only by the last step of a
\* delete run that has removed the vectors and then the file; the step that
\* removes the vectors leaves none of the document, the step that removes the
\* file leaves no file; and a run whose vector deletion (or file deletion)
\* raised ends there, with the record as it was.
C12_DeleteCascadeOrder ==
    [][/\ \A d \in DocIds :
            (documents[d].exists /\ ~documents'[d].exists) =>
               \E p \in ProcIds :
                  /\ procs[p].op = "delete"
                  /\ ProcStepFrom(p, "del_record")
                  /\ procs[p].document_id = d
                  /\ procs[p].log = <<[step |-> "vectors", ok |-> TRUE],
                                      [step |-> "file", ok |-> TRUE]>>
                  /\ files[d] = NoFile
       /\ \A p \in ProcIds :
            LET d == procs[p].document_id IN
            /\ (ProcStepFrom(p, "del_vectors") /\ ~procs'[p].raised) =>
                  /\ procs'[p].pc = "del_file"
                  /\ {q \in collections'[GetCollectionName(procs[p].tenant_id)].points :
                         q.document_id = d} = {}
                  /\ documents' = documents /\ files' = files
            /\ (ProcStepFrom(p, "del_file") /\ ~procs'[p].raised) =>
                  /\ procs'[p].pc = "del_record"
                  /\ files'[d] = NoFile
                  /\ documents' = documents
            /\ ((ProcStepFrom(p, "del_vectors") \/ ProcStepFrom(p, "del_file"))
                  /\ procs'[p].raised) =>
                  /\ procs'[p].pc = "del_return"
                  /\ documents' = documents]_vars

\* a delete run has removed the points, the file and the record of a
\* document that had been processed
C12_Witness ==
    \E p \in ProcIds :
        LET f == procs[p] IN
        /\ f.op = "delete"
        /\ f.pc = "del_return"
        /\ f.ret
        /\ Len(f.log) = 3
        /\ ~documents[f.document_id].exists
        /\ collections[GetCollectionName(f.tenant_id)].exists
        /\ PointsOfDocument(f.document_id) = {}
        /\ nextPointId > 1

\* C16.  search_similar for a tenant whose collection does not exist returns
\* the empty list, does not raise and does not create the collection, so the
\* query of such a tenant ends with the no-documents response, whatever the
\* other tenants have stored.
C16_MissingCollectionIsEmpty ==
    [][/\ \A t \in Tenants, qv \in Vectors, k \in TopKs, D \in TenantDocIdLists :
            ~collections[GetCollectionName(t)].exists =>
               SearchSimilar(collections, t, qv, k, D) = {<<>>}
       /\ \A r \in QueryIds :
            LET f == queries[r] IN
            (QueryStepFrom(r, "search")
               /\ ~collections[GetCollectionName(f.tenant_id)].exists) =>
                  /\ queries'[r].pc = "done"
                  /\ ~queries'[r].raised
                  /\ queries'[r].response =
                        [answer |-> NoDocumentsAnswer, sources |-> <<>>,
                         cached |-> FALSE]
                  /\ collections' = collections]_vars

\* a tenant without collection has been answered while the other tenant had
\* points stored
C16_Witness ==
    \E r \in QueryIds :
        /\ queries[r].pc = "done"
        /\ "search_similar" \in queries[r].calls
        /\ queries[r].response.answer = NoDocumentsAnswer
        /\ ~collections[GetCollectionName(queries[r].tenant_id)].exists
        /\ \E t \in Tenants : PointsOfTenant(t) # {}

(***************************************************************************)
(* Claims about cache outages, checked under SpecRagOutage.                *)
(***************************************************************************)
\* C19.  When the cache lookup fails because the backend is unavailable,
\* query_documents treats it as a miss: the lookup step never raises to the
\* caller, and without a cached payload the run goes on to embed and search.
C19_LookupOutageIsMiss ==
    [][\A r \in QueryIds :
          QueryStepFrom(r, "lookup") =>
             /\ ~queries'[r].raised
             /\ queries'[r].pc \in {"search", "done"}
             /\ queries'[r].pc = "done" => queries'[r].response.cached]_vars

\* C20.  When the cache write of a generated answer fails, query_documents
\* still returns that answer with its sources and cached = false: the store
\* step never raises to the caller.
C20_StoreOutageStillAnswers ==
    [][\A r \in QueryIds :
          LET f == queries[r] IN
          QueryStepFrom(r, "store") =>
             /\ ~queries'[r].raised
             /\ queries'[r].pc = "done"
             /\ queries'[r].response =
                   [answer |-> f.answer, sources |-> f.results, cached |-> FALSE]]_vars

(***************************************************************************)
(* C10.  search_similar with a supplied set D of document ids returns only *)
(* points whose document_id is in D, and every such point that ranks       *)
(* within top_k: the returned list has min(top_k, number of points of D)   *)
(* hits, all of documents of D, and no point of D left out scores higher   *)
(* than a returned one.  Stated for every non-empty D, one id or several.  *)
(***************************************************************************)
PointsOfDocs(t, D) ==
    {p \in collections[GetCollectionName(t)].points : p.document_id \in Range(D)}

C10_FilterReturnsDocsOfD ==
    (call.op = "search_similar" /\ call.document_ids # <<>>) =>
        LET E == PointsOfDocs(call.tenant, call.document_ids)
            r == call.result
        IN /\ \A i \in 1..Len(r) : r[i].document_id \in Range(call.document_ids)
           /\ Len(r) = Min(call.top_k, Cardinality(E))
           /\ \A p \in E :
                \/ \E i \in 1..Len(r) : r[i] = Hit(p, call.qv)
                \/ \A i \in 1..Len(r) : Score(call.qv, p.vector) <= r[i].score

(***************************************************************************)
(* C17.  delete_document_vectors(tenant, d) removes from the tenant's      *)
(* collection every point whose document_id is d and nothing else: the     *)
(* points of other documents and the collections of other tenants (also    *)
(* when they hold points with the same document id) are as before, no      *)
(* collection appears or disappears, and with the tenant's collection      *)
(* missing nothing changes.  Checked under SpecIndexWrites.                *)
(***************************************************************************)
C17_DeleteRemovesOnlyDocument ==
    [][call'.op = "delete_document_vectors" =>
          LET name == GetCollectionName(call'.tenant)
              d == call'.document_ids[1]
          IN
          /\ \A n \in CollectionNames :
                /\ collections'[n].exists = collections[n].exists
                /\ n # name => collections'[n] = collections[n]
          /\ collections'[name].points =
                {p \in collections[name].points : p.document_id # d}
          /\ ~collections[name].exists => collections' = collections
          /\ nextPointId' = nextPointId]_vars

\* after a delete call the tenant keeps the points of another document and
\* the other tenant keeps its points of the same document id, while fewer
\* points are stored than were created
C17_Witness ==
    /\ call.op = "delete_document_vectors"
    /\ LET name == GetCollectionName(call.tenant)
           d == call.document_ids[1]
       IN
       /\ \E p \in collections[name].points : p.document_id # d
       /\ \E n \in CollectionNames \ {name} :
             \E p \in collections[n].points : p.document_id = d
       /\ Cardinality(UNION {collections[n].points : n \in CollectionNames})
             < nextPointId - 1

(***************************************************************************)
(* C18.  store_embeddings stores, for lists of equal length, one point per *)
(* chunk, point i with chunk_index i, chunks[i] and embeddings[i] under a  *)
(* fresh id; a call whose lists differ in length is rejected: it stores no *)
(* point.  Checked under SpecStore.                                        *)
(***************************************************************************)
C18_UnequalListsRejected ==
    [][call'.op = "store_embeddings" =>
          LET name == GetCollectionName(call'.tenant)
              new == collections'[name].points \ collections[name].points
              n == Len(call'.chunks)
          IN
          IF Len(call'.embeddings) = n
          THEN /\ Cardinality(new) = n
               /\ \A p \in new : p.id >= nextPointId
               /\ \A i \in 1..n :
                     \E p \in new : /\ p.chunk_index = i - 1
                                    /\ p.text = call'.chunks[i]
                                    /\ p.vector = call'.embeddings[i]
                                    /\ p.document_id = call'.document_ids[1]
          ELSE new = {}]_vars

(***************************************************************************)
(* Claims about chunk_text, checked under SpecChunk.                       *)
(***************************************************************************)
ChunkReturned == call.op = "chunk_text" /\ call.pc = "returned"

\* chunk_size > overlap >= 0
ChunkValid == call.chunk_size > call.overlap /\ call.overlap >= 0

ChunkNonBlank == \E i \in 1..Len(call.text) : call.text[i] \notin Whitespace

\* the position in the text at which chunk i (from 1) is expected to start
ChunkStart(i) == (i - 1) * (call.chunk_size - call.overlap)

RECURSIVE Join(_)
Join(chunks) == IF chunks = <<>> THEN <<>> ELSE Head(chunks) \o Join(Tail(chunks))

\* C21.  A chunk_text call with overlap >= chunk_size fails with ValueError
\* for every text: once past its entry it has raised, it has emitted no
\* chunk and it is not iterating.
C21_OverlapRejected ==
    (call.op = "chunk_text" /\ call.overlap >= call.chunk_size /\ call.pc # "start")
        => /\ call.raised
           /\ call.chunks = <<>>
           /\ call.pc # "loop"

ScenarioReturned ==
    /\ ChunkReturned
    /\ Len(call.text) = ScenarioLen
    /\ call.chunk_size = ScenarioChunkSize
    /\ call.overlap = ScenarioOverlap

\* C23 as stated.  The scenario yields 12 chunks, the first 11 of length 100
\* and the last shorter, the last 10 characters of chunk 0 being the first 10
\* of chunk 1.
C23_ScenarioTwelveChunks ==
    ScenarioReturned =>
        /\ Len(call.chunks) = 12
        /\ \A i \in 1..11 : Len(call.chunks[i]) = 100
        /\ Len(call.chunks[12]) < 100
        /\ SubSeq(call.chunks[1], 91, 100) = SubSeq(call.chunks[2], 1, 10)

\* C23, amended.  The scenario yields 11 chunks, every one of length 100 (the
\* eleventh starts at 900 and reaches the end of the text exactly), the last
\* 10 characters of chunk 0 being the first 10 of chunk 1.
C23_ScenarioElevenChunks ==
    ScenarioReturned =>
        /\ Len(call.chunks) = 11
        /\ \A i \in 1..11 :
              call.chunks[i] = SubSeq(call.text, 90 * (i - 1) + 1, 90 * (i - 1) + 100)
        /\ SubSeq(call.chunks[1], 91, 100) = SubSeq(call.chunks[2], 1, 10)

\* the scenario call has returned, for the text of varied characters
C23_Witness ==
    /\ ScenarioReturned
    /\ \E i, j \in 1..20 : call.text[i] # call.text[j]

\* C24.  For overlap = 0, chunk_size >= 1 and a non-blank text, the returned
\* chunks concatenated in order are the text.
C24_NoOverlapConcatenates ==
    (ChunkReturned /\ call.overlap = 0 /\ call.chunk_size >= 1 /\ ChunkNonBlank)
        => Join(call.chunks) = call.text

\* a text tiled by at least two chunks, the last one shorter
C24_Witness ==
    /\ ChunkReturned /\ call.overlap = 0 /\ call.chunk_size >= 2 /\ ChunkNonBlank
    /\ Len(call.chunks) >= 2
    /\ Len(call.chunks[Len(call.chunks)]) < call.chunk_size

\* C25.  For chunk_size > overlap >= 0: at every point of the call each
\* chunk but the latest has exactly chunk_size characters and ends before
\* the end of the text; the call keeps iterating only while no chunk has
\* reached the end; and on return from a non-blank text the last chunk is
\* non-empty, has at most chunk_size characters and ends the text.
C25_OnlyLastChunkShort ==
    (call.op = "chunk_text" /\ ChunkValid) =>
        LET n == Len(call.chunks)
            End(i) == ChunkStart(i) + Len(call.chunks[i])
        IN
        /\ \A i \in 1..(n - 1) :
              /\ Len(call.chunks[i]) = call.chunk_size
              /\ End(i) < Len(call.text)
        /\ (call.pc = "loop" /\ n >= 1) =>
              /\ Len(call.chunks[n]) = call.chunk_size
              /\ End(n) < Len(call.text)
        /\ call.pc = "loop" => n <= Len(call.text)
        /\ (call.pc = "returned" /\ ChunkNonBlank) =>
              /\ n >= 1
              /\ Len(call.chunks[n]) \in 1..call.chunk_size
              /\ End(n) = Len(call.text)

\* a call returned at least two full chunks and then a shorter one
C25_Witness ==
    /\ ChunkReturned /\ ChunkValid
    /\ Len(call.chunks) >= 3
    /\ Len(call.chunks[Len(call.chunks)]) < call.chunk_size

\* C26.  For a non-blank text of at most chunk_size characters and any
\* overlap < chunk_size, the call returns the one chunk that is the text.
C26_ShortTextOneChunk ==
    (/\ ChunkReturned /\ ChunkNonBlank
     /\ Len(call.text) <= call.chunk_size
     /\ call.overlap < call.chunk_size)
        => call.chunks = <<call.text>>

\* a text of exactly chunk_size characters, with a positive overlap, returned
C26_Witness ==
    /\ ChunkReturned /\ ChunkNonBlank
    /\ Len(call.text) = call.chunk_size
    /\ call.overlap \in 1..(call.chunk_size - 1)
    /\ Len(call.chunks) = 1

C28_CacheKeyPureAndTenantScoped ==
    /\ \A t1, t2 \in CacheTenants :
       \A q1, q2 \in CacheQuestions :
          LET k1 == GetCacheKey(t1, q1)
              k2 == GetCacheKey(t2, q2)
          IN
          /\ Len(k1[3]) = 16
          /\ KeyString(k1) = "query:" \o t1 \o ":" \o Sha256Hex(q1)[1]
          /\ (t1 = t2 /\ q1 = q2) => KeyString(k1) = KeyString(k2)
          /\ t1 # t2 => KeyString(k1) # KeyString(k2)
    /\ call.op \in {"cache_answer", "get_cached_answer"} =>
          call.key = GetCacheKey(call.tenant, call.question)
    /\ \A w \in lastWrite : w.key = GetCacheKey(w.tenant, w.question)
    /\ \A w1, w2 \in lastWrite :
          w1.tenant # w2.tenant => KeyString(w1.key) # KeyString(w2.key)
    /\ \A e \in cache : \E w \in lastWrite : w.key = e.key

\* answers are cached for tenant "tA" with question "x:y" and for tenant
\* "tA:x" with question "y"
C28_Witness ==
    /\ \E e \in cache : e.key = GetCacheKey("tA", "x:y")
    /\ \E e \in cache : e.key = GetCacheKey("tA:x", "y")
    /\ \E w \in lastWrite : w.tenant = "tA" /\ w.question = "x:y"
    /\ \E w \in lastWrite : w.tenant = "tA:x" /\ w.question = "y"

\* C29.  get_cached_answer(t, q) returns the payload of the latest
\* cache_answer(t, q, p, ttl) when fewer than ttl seconds have passed since
\* that call, and None otherwise: when the pair was never stored and when
\* the ttl of the latest store has elapsed, nothing having deleted the entry.
C29_CacheRoundTripUntilTTL ==
    [][(call'.op = "get_cached_answer" /\ call' # call) =>
          LET W == {w \in lastWrite :
                       /\ w.tenant = call'.tenant
                       /\ w.question = call'.question
                       /\ now < w.at + w.ttl}
          IN
          /\ call'.result = {w.response : w \in W}
          /\ Cardinality(W) <= 1
          /\ cache' = cache]_vars

\* a lookup returned None for a pair stored with a ttl that has elapsed,
\* while the answer stored for another pair at the same time is still held
C29_Witness ==
    /\ call.op = "get_cached_answer"
    /\ call.result = {}
    /\ \E w \in lastWrite :
          /\ w.tenant = call.tenant /\ w.question = call.question
          /\ w.at + w.ttl <= call.at
          /\ \E v \in lastWrite :
                /\ v.key # w.key
                /\ v.at = w.at
                /\ \E e \in cache : e.key = v.key /\ call.at < e.expires

(***************************************************************************)
(* Claims about extract_text, checked under SpecExtract.                   *)
(***************************************************************************)
\* the lower-cased text after the last '.' of a path that holds one
SuffixAfterLastDot(path) ==
    LET last == CHOOSE i \in 1..Len(path) :
                   path[i] = "." /\ \A j \in (i + 1)..Len(path) : path[j] # "."
    IN [k \in 1..(Len(path) - last) |-> Lower(path[last + k])]

\* the path holds a '.' followed by pdf, docx or txt in any case
SupportedPath(path) ==
    /\ \E i \in 1..Len(path) : path[i] = "."
    /\ SuffixAfterLastDot(path) \in {PdfExtension, DocxExtension, TxtExtension}

\* C30.  extract_text hands a path to the pdf, docx or txt extractor exactly
\* when the lower-cased text after its last '.' is pdf, docx or txt, and
\* raises the unsupported-type ValueError for every other path, a path
\* without '.' included; process_document does not raise on such a path: it
\* never gets past extraction and records the document as failed.
C30_ExtractDispatch ==
    /\ call.op = "extract_text" =>
          IF SupportedPath(call.file_path)
          THEN /\ ~call.outcome.raised
               /\ call.outcome.extractor =
                     (CASE SuffixAfterLastDot(call.file_path) = PdfExtension -> "extract_from_pdf"
                        [] SuffixAfterLastDot(call.file_path) = TxtExtension -> "extract_from_txt"
                        [] OTHER -> "extract_from_docx")
          ELSE call.outcome.raised
    /\ \A p \in ProcIds :
          LET f == procs[p] IN
          (f.pc \notin {"idle", "pd_fetch", "pd_mark", "pd_extract", "done"}
            /\ ~SupportedPath(f.file_path)) =>
              /\ ~f.raised
              /\ f.pc \in {"pd_fail", "pd_return"}
              /\ f.log[Len(f.log)].step \in {"extract", "failed"}
    /\ \A d \in DocIds :
          (documents[d].exists /\ ~SupportedPath(documents[d].file_path)) =>
              documents[d].status # "ready"

(***************************************************************************)
(* C31.  Every query_documents run that has reached the Answer Generator   *)
(* eventually returns a payload, also when the generator call does not     *)
(* return: the call is bounded by a timeout whose expiry is handled like   *)
(* a generator error.  Checked under SpecRagHang.                          *)
(***************************************************************************)
C31_EveryQueryReturns ==
    \A r \in QueryIds : (queries[r].pc = "generate") ~> (queries[r].pc = "done")

(***************************************************************************)
(* C32.  A query_documents run called with a non-empty document_ids        *)
(* returns only sources whose document_id is in document_ids, whatever     *)
(* queries came before it and whatever the cache holds.  Checked under     *)
(* SpecRag.                                                                *)
(***************************************************************************)
C32_SourcesWithinDocumentIds ==
    \A r \in QueryIds :
        LET f == queries[r] IN
        (f.pc = "done" /\ f.document_ids # <<>>) =>
            \A i \in 1..Len(f.response.sources) :
                f.response.sources[i].document_id \in Range(f.document_ids)

(***************************************************************************)
(* C33.  A document with status ready has exactly chunks_count points in   *)
(* its tenant's collection, one for each chunk_index 0..chunks_count-1,    *)
(* in every state reached by concurrent upload, process_all_queued and     *)
(* reprocess_document runs.  Checked under SpecProc.                       *)
(***************************************************************************)
C33_ReadyHasExactlyItsPoints ==
    \A d \in DocIds :
        (documents[d].exists /\ documents[d].status = "ready") =>
           LET pts == {pt \in collections[GetCollectionName(documents[d].tenant_id)].points :
                          pt.document_id = d}
           IN
           /\ Cardinality(pts) = documents[d].chunks_count
           /\ \A i \in 0..(documents[d].chunks_count - 1) :
                 Cardinality({pt \in pts : pt.chunk_index = i}) = 1


(***************************************************************************)
(* Claims about delete_document beside the processor and the query path.   *)
(***************************************************************************)
\* the points of document d, in whatever collection they are
PointsWithDocumentId(d) ==
    UNION {{pt \in collections[n].points : pt.document_id = d} : n \in CollectionNames}

\* C34.  In every interleaving of delete_document with a process_document
\* run on the same document, once the document's record has been deleted
\* the tenant's collection holds no points with that document_id: no points
\* are upserted for a document after its delete has removed its vectors.
\* Checked under SpecDelete.
C34_NoPointsAfterDelete ==
    \A d \in DocIds :
        ~documents[d].exists => PointsWithDocumentId(d) = {}

\* C37.  Every uploaded document eventually reaches status ready or failed:
\* provided each collaborator call returns or raises, a run that set
\* processing always ends by writing ready or failed, and a document left
\* queued or processing by an interrupted run is brought to ready or failed
\* by a later process_all_queued, so no document stays queued or processing
\* forever.  Checked under SpecRecover.
C37_EveryDocumentSettles ==
    \A d \in DocIds :
        (documents[d].exists /\ documents[d].status \in {"queued", "processing"})
            ~> (documents[d].status \in {"ready", "failed"})

\* delete_document for document d has completed: the record is gone and no
\* delete_document call on d is still under way
DeleteCompleted(d) ==
    /\ ~documents[d].exists
    /\ \A p \in ProcIds : ~(procs[p].op = "delete" /\ procs[p].document_id = d)

\* C36.  After delete_document for document d has completed, no later
\* query_documents response for that tenant lists a source whose document_id
\* is d, including responses served from the query cache within its TTL:
\* a run whose cache lookup (its first step) takes place after the delete
\* has completed and is a hit returns no source of d, and a search made
\* after the delete has completed returns no chunk of d.  Checked under
\* SpecDeleteQuery.
C36_NoSourceOfDeletedDocument ==
    [][\A r \in QueryIds, d \in DocIds :
        (DeleteCompleted(d) /\ queries[r].tenant_id = SeedStores[SeedOf(d)].tenant) =>
            /\ (QueryStepFrom(r, "lookup") /\ queries'[r].pc = "done") =>
                  \A i \in 1..Len(queries'[r].response.sources) :
                      queries'[r].response.sources[i].document_id # d
            /\ QueryStepFrom(r, "search") =>
                  \A i \in 1..Len(queries'[r].results) :
                      queries'[r].results[i].document_id # d]_vars

(***************************************************************************)
(* Claims about the document status and the points, checked under SpecProc *)
(* and its fair variant.                                                   *)
(***************************************************************************)
\* C35.  In every reachable state a document whose status is queued or
\* failed has no points in its tenant's collection: a run that ends in
\* failed has added no points and has left none from an earlier run of the
\* same document.  Checked under SpecProc.
C35_QueuedOrFailedHasNoPoints ==
    \A d \in DocIds :
        (documents[d].exists /\ documents[d].status \in {"queued", "failed"}) =>
            {pt \in collections[GetCollectionName(documents[d].tenant_id)].points :
                pt.document_id = d} = {}

(***************************************************************************)
(* Termination of chunk_text, checked under SpecChunkFair.                 *)
(***************************************************************************)
\* ceil(a / b) for a >= 0 and b >= 1
CeilDiv(a, b) == (a + b - 1) \div b

\* C38.  For every text and every pair with 0 <= overlap < chunk_size,
\* chunk_text terminates: each loop iteration that does not emit the final
\* chunk emits one chunk and advances the left pointer by
\* chunk_size - overlap >= 1, at no time have more than
\* ceil(len(text) / (chunk_size - overlap)) chunks been emitted, and the
\* call returns.
C38_ChunkTextTerminates ==
    /\ []((call.chunk_size > call.overlap /\ call.overlap >= 0) =>
            /\ call.chunk_size - call.overlap >= 1
            /\ Len(call.chunks) <=
                  CeilDiv(Len(call.text), call.chunk_size - call.overlap))
    /\ [][(/\ call.chunk_size > call.overlap
           /\ call.overlap >= 0
           /\ call.pc = "loop"
           /\ call'.pc = "loop") =>
              /\ call'.l = call.l + (call.chunk_size - call.overlap)
              /\ Len(call'.chunks) = Len(call.chunks) + 1]_vars
    /\ ((call.chunk_size > call.overlap /\ call.overlap >= 0)
            ~> (call.pc = "returned"))

\* a call that has returned as many chunks as the bound allows, more than two
C38_Witness ==
    /\ call.pc = "returned"
    /\ call.chunk_size > call.overlap
    /\ call.overlap >= 0
    /\ Len(call.chunks) > 2
    /\ Len(call.chunks) = CeilDiv(Len(call.text), call.chunk_size - call.overlap)

(***************************************************************************)
(* The rate limiter, checked under SpecRate.                               *)
(***************************************************************************)
\* C39.  For each tenant and hour window, in every interleaving of
\* concurrent check_rate_limit calls, each call observes a distinct counter
\* value and exactly the calls that observe 1..100 return allowed = true;
\* every later call in that window returns allowed = false with
\* remaining = 0, the query endpoint answers it with 429 without invoking
\* query_documents, and get_rate_limit_status never changes the counter.
\* (The window of a call is the hour its key names.)
C39_RateLimitExact ==
    /\ [](/\ \A a, b \in generated :
                (a.n # b.n /\ a.key = b.key) => a.count # b.count
          /\ \A a, b \in generated :
                (a.key = b.key /\ a.seq < b.seq /\ a.count >= RATE_LIMIT_PER_HOUR)
                    => b.count > RATE_LIMIT_PER_HOUR
          /\ \A x \in degraded :
                \E a \in generated :
                    /\ a.n = x.n
                    /\ x.rate.current = a.count
                    /\ x.rate.allowed = (a.count \in 1..RATE_LIMIT_PER_HOUR)
                    /\ x.rate.allowed => (x.invoked /\ x.status_code = 200)
                    /\ ~x.rate.allowed =>
                          /\ x.rate.remaining = 0
                          /\ x.status_code = 429
                          /\ ~x.invoked)
    /\ [][\A r \in QueryIds :
            (queries[r].pc = "get" /\ queries'[r].pc # "get") => cache' = cache]_vars

====
